---- MODULE Spec2Model ----
(***************************************************************************)
(* Menu navigation of the two YouTube browsers (yt-browser2.py and         *)
(* yt-browser4.py): the paginated listing of playlist_explorer, its item   *)
(* action menu, and the menus that open a listing session.                 *)
(***************************************************************************)
EXTENDS Integers, Sequences, FiniteSets, TLC

\* ------------------------------------------------------------------ bounds
\* NO_OF_SEARCH_RESULTS ranges over 1..MaxPageSize
MaxPageSize == 2
\* Next / autoplay page advance is only taken while PLAYLIST_START stays <= MaxWindow
MaxWindow == 3
\* a fetched page holds 0..MaxEntries entries
MaxEntries == 1
\* nesting depth of playlist_explorer calls (Mix opens a session inside a session)
MaxDepth == 2

\* fibonacci.py: largest number entered at the prompt
MaxN == 8

\* stream.py: a search, season or episode list holds 0..MaxItems items
MaxItems == 2

\* stream2.py: a season holds up to MaxEpisodes episodes
MaxEpisodes == 3

\* page rendering: a page holds up to MaxListed entries and is displayed again up
\* to MaxRedisplays times before the next fetch
MaxListed == 2
MaxRedisplays == 2

\* side-by-side run: number of Next / Previous selections
MaxSteps == 3

\* update_json_list: NO_OF_RECENT ranges over 0..MaxRecent
MaxRecent == 2
\* search history: '!0' .. '!MaxBang' are entered, and the file is followed up
\* to MaxHistory lines
MaxBang == 2
MaxHistory == 3

\* ------------------------------------------------------- selections (strings)
\* A string handed back by the Selection UI is modelled by what the code reads
\* from it: label is the text after the icon prefix is stripped; for a string
\* whose first blank-separated token is a decimal integer, label = "item" and n
\* is that integer; any other text is "text".
Ctl(l) == [label |-> l, n |-> 0]
Item(i) == [label |-> "item", n |-> i]
\* text typed into rofi: anything at all; at a list of numbered lines a typed
\* number is told apart from other text
TypedText == {Ctl("text")}
TypedNumbers == {Item(i) : i \in (1 - MaxEntries)..(MaxEntries + 1)}

\* entries of a fetched page: a video record or a JSON null
Pages == UNION {[1..k -> {"video", "null"}] : k \in 0..MaxEntries}

\* outcome of one yt-dlp call: exit status / payload shape
FetchOutcomes ==
    {[kind |-> "ok", entries |-> p] : p \in Pages}
      \cup {[kind |-> k, entries |-> <<>>] : k \in {"fail", "badjson", "noentries"}}

\* external calls issued by one step
Fetch(s, e) == [tool |-> "yt-dlp", start |-> s, end |-> e, wait |-> TRUE, novideo |-> FALSE]
Notify == [tool |-> "notify", start |-> 0, end |-> 0, wait |-> TRUE, novideo |-> FALSE]
Player(w, nv) == [tool |-> "player", start |-> 0, end |-> 0, wait |-> w, novideo |-> nv]
Download == [tool |-> "download", start |-> 0, end |-> 0, wait |-> FALSE, novideo |-> FALSE]
Editor == [tool |-> "editor", start |-> 0, end |-> 0, wait |-> TRUE, novideo |-> FALSE]

\* ------------------------------------------------------------ pure functions
\* slip: an empty result is "Exit" for every selector
launcher_EmptyIsExit(selector, raw) ==
    IF raw.label = "" THEN Ctl("Exit") ELSE raw

\* launcher(): rofi turns an empty result into "Exit", fzf returns "" for it
launcher(selector, raw) ==
    IF selector = "rofi" /\ raw.label = "" THEN Ctl("Exit") ELSE raw

\* run_yt_dlp(): the calls one fetch issues (notification only on non-zero exit)
run_yt_dlp(s, e, o) ==
    <<Fetch(s, e)>> \o (IF o.kind = "fail" THEN <<Notify>> ELSE <<>>)

\* slip: the loop test is only "not search_results"
Usable_NoEntriesTest(o) == o.kind \in {"ok", "noentries"}

\* "not search_results or 'entries' not in search_results" is false
Usable(o) == o.kind = "ok"

\* slip: only the start bound advances
NextWindow_StartOnly(s, e, P) == <<s + P, e>>

\* Next: both bounds advance by the page size
NextWindow(s, e, P) == <<s + P, e + P>>

\* slip: the start bound is not clamped
PrevWindow2_NoStartClamp(s, e, P) ==
    << s - P,
       IF e - P < P THEN P ELSE e - P >>

\* slip: the end bound is set to the page size whatever it was
PrevWindow2_EndAlwaysMin(s, e, P) ==
    << IF s - P <= 0 THEN 1 ELSE s - P, P >>

\* Previous in yt-browser2
PrevWindow2(s, e, P) ==
    << IF s - P <= 0 THEN 1 ELSE s - P,
       IF e - P < P THEN P ELSE e - P >>

\* slip: the end bound is not clamped
PrevWindow4_NoEndClamp(s, e, P) ==
    << IF s - P <= 0 THEN 1 ELSE s - P, e - P >>

\* slip: the end bound is clamped like the start bound, at zero
PrevWindow4_EndClampAtZero(s, e, P) ==
    << IF s - P <= 0 THEN 1 ELSE s - P,
       IF e - P <= 0 THEN P ELSE e - P >>

\* Previous in yt-browser4
PrevWindow4(s, e, P) ==
    << IF s - P <= 0 THEN 1 ELSE s - P,
       IF e - P <= P THEN P ELSE e - P >>

PrevWindow(b, s, e, P) == IF b = 2 THEN PrevWindow2(s, e, P) ELSE PrevWindow4(s, e, P)

\* window after the tail of playlist_explorer
ResetWindow(P) == <<1, P>>

\* the player names a config file can give: the two the code knows, and any other
Players == {"mpv", "vlc", "other"}

\* yt-browser2 Watch: the no-video arguments are appended in the mpv and the vlc
\* branch only
NoVideoArgs(player, audioOnly) == audioOnly /\ player \in {"mpv", "vlc"}

\* Python list indexing entries[i]: negative i counts from the end
PyIndexValid(len, i) == i >= 0 - len /\ i < len
\* 1-based position read by entries[i]
PyIndex(len, i) == IF i < 0 THEN i + len + 1 ELSE i + 1

\* the control labels the listing dispatches on before it tries an item
ListingControls(b) ==
    {"Next", "Previous", "Back", "", "Exit"} \cup (IF b = 4 THEN {"Main Menu"} ELSE {})

\* the lines the listing offers
ListingOptions(b, entries) ==
    {Item(i) : i \in {j \in 1..Len(entries) : entries[j] /= "null"}}
      \cup {Ctl("Next"), Ctl("Previous"), Ctl("Back"), Ctl("Exit")}
      \cup (IF b = 4 THEN {Ctl("Main Menu")} ELSE {})

\* what the user can hand back: an offered line, nothing, or (rofi) typed text
UserChoices(selector, options, typed) ==
    options \cup {Ctl("")} \cup (IF selector = "rofi" THEN typed ELSE {})

\* ------------------------------------------------------------------- state
VARIABLES
    browser,               \* 2: yt-browser2.py, 4: yt-browser4.py
    PREFERRED_SELECTOR,    \* CONFIG["PREFERRED_SELECTOR"]
    hasRofiTheme,          \* "ROFI_THEME" is a key of CONFIG
    PLAYER,                \* CONFIG["PLAYER"]
    NO_OF_SEARCH_RESULTS,  \* int(CONFIG["NO_OF_SEARCH_RESULTS"])
    PLAYLIST_START,
    PLAYLIST_END,
    AUDIO_ONLY_MODE,
    AUTOPLAY_MODE,
    pc,                    \* the prompt the process waits at, or "playing"/"exited"/"crashed"
    menu,                  \* innermost active menu below the sessions
    sess,                  \* stack of active playlist_explorer calls, innermost last
    playlists,             \* entries shown by playlists_explorer
    subsFile,              \* subscriptions.json exists
    calls,                 \* external calls issued by the last step
    last,                  \* the selection the last step resolved
    prevWin,               \* window bounds before the last step
    nextFrom               \* when the last step was a listing Previous that followed a
                           \* listing Next whose fetch succeeded: the window bounds
                           \* before that Next

\* fibonacci.py
VARIABLES
    fpc,                   \* "prompt", "branch", "loop", "exited"; "off": not running
    response,              \* what input('> ') returned last
    nth,
    secondTolastNumber,
    lastNumber,
    fibNumbeCalculated,
    nextNumber,
    printed,               \* the sequence terms printed for the current request
    reported,              \* 'The #n Fibonacci number is v' of the current request
    iterations             \* passes through the computation loop for the current request

\* stream.py
VARIABLES
    lpc,                   \* the input() LobsterApp waits at: "search", "media", "season",
                           \* "episode", "next"; "done" after run() returned; "off"
    query,                 \* what the search prompt returned last
    choice,                \* what the last prompt other than the search prompt returned
    items,                 \* the list the current numbered menu offers
    media,                 \* the selected search result (run's local)
    playing                \* the last step ran play_video up to subprocess.run

\* stream2.py, handle_tv_show
VARIABLES
    tvpc,                  \* "main": run()'s menu; "season", "episode", "menu": the input()
                           \* waited at; "fetch": line 577 reached; "exited"; "off"
    auto_next,             \* config 'auto_next'
    seasons,
    episodes,
    current_episode_idx,
    episode,
    tv_choice,             \* what the last input() returned
    played                 \* the episode the last step handed to play_video, "" if none

\* playlist_explorer, rendering of one page (both browsers)
VARIABLES
    rpc,                   \* "render": top of the loop; "prompt": launcher() waits; "off"
    ENABLE_PREVIEW,        \* CONFIG["ENABLE_PREVIEW"] == "true"
    selector,              \* CONFIG["PREFERRED_SELECTOR"]
    download_images,
    fetched,               \* the entries as run_yt_dlp returned them
    search_results,        \* its "entries" list, titles rewritten in place
    titles,                \* the item labels handed to launcher()
    displays               \* times the page was displayed since it was fetched

\* the two browsers' listings side by side, given the same selections
VARIABLES
    pageSize,              \* int(CONFIG["NO_OF_SEARCH_RESULTS"]) of both
    win2,                  \* (PLAYLIST_START, PLAYLIST_END) of yt-browser2
    win4,                  \* (PLAYLIST_START, PLAYLIST_END) of yt-browser4
    fetches2,              \* bounds of the fetches yt-browser2 issued, in order
    fetches4               \* bounds of the fetches yt-browser4 issued, in order

\* playlists_explorer of yt-browser4, with the titles spelled out
VARIABLES
    pl_titles,             \* the playlists' titles as fetched (each a tuple of characters)
    pl_pick,               \* the line the user picked last: 1..n for an item, 0 for none yet,
                           \* -1 Back, -2 Exit, -3 nothing
    pl_result              \* what the code did with it; "shown": a list was fetched
                           \* and nothing was picked from it yet

\* update_json_list of yt-browser4 on one file
VARIABLES
    jl_entries,            \* data["entries"] as stored in the file
    jl_last                \* the last call: add, id, limit (None: left out), fresh (the id was
                           \* not stored), before (the stored entries before the call)

browserVars == <<browser, PREFERRED_SELECTOR, hasRofiTheme, PLAYER, NO_OF_SEARCH_RESULTS,
                 PLAYLIST_START, PLAYLIST_END, AUDIO_ONLY_MODE, AUTOPLAY_MODE,
                 pc, menu, sess, playlists, subsFile, calls, last, prevWin, nextFrom>>

fibVars == <<fpc, response, nth, secondTolastNumber, lastNumber, fibNumbeCalculated,
             nextNumber, printed, reported, iterations>>

lobsterVars == <<lpc, query, choice, items, media, playing>>

tvVars == <<tvpc, auto_next, seasons, episodes, current_episode_idx, episode, tv_choice, played>>

renderVars == <<rpc, ENABLE_PREVIEW, selector, download_images, fetched, search_results, titles, displays>>

pairVars == <<pageSize, win2, win4, fetches2, fetches4>>

plVars == <<pl_titles, pl_pick, pl_result>>

jlVars == <<jl_entries, jl_last>>

\* the Search entry of main_menu and the search history file
VARIABLES
    sh_browser,            \* 2: yt-browser2, 4: yt-browser4
    SEARCH_HISTORY,        \* CONFIG["SEARCH_HISTORY"] == "true"
    hist_lines,            \* the lines of search_history.txt (none: no file)
    entered,               \* what prompt() returned last
    search_term,           \* the term the last search was made with
    sh_pc                  \* "off", "menu", "searched", "crashed"

shVars == <<sh_browser, SEARCH_HISTORY, hist_lines, entered, search_term, sh_pc>>

vars == <<browserVars, fibVars, lobsterVars, tvVars, renderVars, pairVars, plVars, jlVars, shVars>>

\* fibonacci.py is not running
FibOff ==
    /\ fpc = "off"
    /\ response = ""
    /\ nth = 0
    /\ secondTolastNumber = 0
    /\ lastNumber = 0
    /\ fibNumbeCalculated = 0
    /\ nextNumber = 0
    /\ printed = <<>>
    /\ reported = <<>>
    /\ iterations = 0

\* stream.py is not running
LobsterOff ==
    /\ lpc = "off"
    /\ query = ""
    /\ choice = ""
    /\ items = <<>>
    /\ media = ""
    /\ playing = FALSE

\* stream2.py is not running
TvOff ==
    /\ tvpc = "off"
    /\ auto_next = FALSE
    /\ seasons = <<>>
    /\ episodes = <<>>
    /\ current_episode_idx = 0
    /\ episode = ""
    /\ tv_choice = ""
    /\ played = ""

\* no page is being rendered
RenderOff ==
    /\ rpc = "off"
    /\ ENABLE_PREVIEW = FALSE
    /\ selector = "fzf"
    /\ download_images = FALSE
    /\ fetched = <<>>
    /\ search_results = <<>>
    /\ titles = <<>>
    /\ displays = 0

\* the side-by-side run is not in use
PairOff ==
    /\ pageSize = 1
    /\ win2 = <<1, 1>>
    /\ win4 = <<1, 1>>
    /\ fetches2 = <<>>
    /\ fetches4 = <<>>

\* no playlists list is shown
PlOff ==
    /\ pl_titles = <<>>
    /\ pl_pick = 0
    /\ pl_result = "off"

NoCall == [add |-> FALSE, id |-> "", limit |-> 0, fresh |-> FALSE, before |-> <<>>]

\* no list file is in use
JlOff ==
    /\ jl_entries = <<>>
    /\ jl_last = NoCall

\* no search is being made
ShOff ==
    /\ sh_browser = 2
    /\ SEARCH_HISTORY = FALSE
    /\ hist_lines = <<>>
    /\ entered = <<>>
    /\ search_term = <<>>
    /\ sh_pc = "off"

config == <<browser, PREFERRED_SELECTOR, hasRofiTheme, PLAYER>>

\* one playlist_explorer call: its page, whether search_results is usable,
\* current_index (yt-browser2 only; yt-browser4 has no such local), the 1-based
\* position of `video`.  (enumerate_playlist of yt-browser4 is only read by
\* download commands and is left out.)
Frame(entries) == [entries |-> entries, ok |-> TRUE, cur |-> 0, vid |-> 0]

Top == sess[Len(sess)]
Pop == SubSeq(sess, 1, Len(sess) - 1)
SetTop(f) == [sess EXCEPT ![Len(sess)] = f]

\* where control is after the innermost session returned to its caller
ReturnPc(rest) == IF Len(rest) > 0 THEN "item" ELSE menu

\* at: the prompt answered; depth: how many playlist_explorer calls were active
\* there; raw: what the user handed back; sel: what launcher() returned; res:
\* outcome of the page fetch the step made ("none" without one)
Sel(at, depth, raw, s, res) == [at |-> at, depth |-> depth, raw |-> raw, sel |-> s, res |-> res]

\* state after module load and load_config()
Init ==
    /\ browser \in {2, 4}
    /\ PREFERRED_SELECTOR \in {"fzf", "rofi"}
    /\ hasRofiTheme \in (IF browser = 4 THEN {TRUE} ELSE BOOLEAN)
    \* the player command of yt-browser4 is recorded without its arguments
    /\ PLAYER \in (IF browser = 4 THEN {"mpv"} ELSE Players)
    /\ NO_OF_SEARCH_RESULTS \in 1..MaxPageSize
    /\ PLAYLIST_START = 1
    /\ PLAYLIST_END = NO_OF_SEARCH_RESULTS
    /\ AUDIO_ONLY_MODE = FALSE
    /\ AUTOPLAY_MODE = FALSE
    /\ pc = "main"
    /\ menu = "main"
    /\ sess = <<>>
    /\ playlists = <<>>
    /\ subsFile \in BOOLEAN
    /\ calls = <<>>
    /\ last = Sel("start", 0, Ctl(""), Ctl(""), "none")
    /\ prevWin = <<1, NO_OF_SEARCH_RESULTS>>
    /\ nextFrom = <<0, 0>>
    /\ FibOff
    /\ LobsterOff
    /\ TvOff
    /\ RenderOff
    /\ PairOff
    /\ PlOff
    /\ JlOff
    /\ ShOff

\* launcher() reads CONFIG["ROFI_THEME"] on the rofi path
LauncherOK == ~(PREFERRED_SELECTOR = "rofi" /\ ~hasRofiTheme)

\* every step records the window it started from
Step(at, raw, s, res) ==
    /\ last' = Sel(at, Len(sess), raw, s, res)
    /\ prevWin' = <<PLAYLIST_START, PLAYLIST_END>>
    /\ nextFrom' = IF /\ at = "listing" /\ s.label = "Previous"
                      /\ last.at = "listing" /\ last.sel.label = "Next" /\ last.res = "ok"
                   THEN prevWin ELSE <<0, 0>>
    /\ UNCHANGED <<config, fibVars, lobsterVars, tvVars, renderVars, pairVars, plVars, jlVars, shVars>>

SetWindow(w) == PLAYLIST_START' = w[1] /\ PLAYLIST_END' = w[2]

\* the prompt is answered: the user's choice and what launcher() returns for it
Answers(options, typed) == UserChoices(PREFERRED_SELECTOR, options, typed)
Got(raw) == launcher(PREFERRED_SELECTOR, raw)

\* lines 747-748 / 562-563, then return to the caller
EndSession(reset) ==
    /\ sess' = Pop
    /\ pc' = ReturnPc(Pop)
    /\ IF reset THEN SetWindow(ResetWindow(NO_OF_SEARCH_RESULTS))
                ELSE UNCHANGED <<PLAYLIST_START, PLAYLIST_END>>

\* playlist_explorer(run_yt_dlp(url), url): the fetch was made with the current
\* window; an unusable result leaves the loop at once
StartSession(o) ==
    IF Usable(o)
    THEN /\ sess' = Append(sess, Frame(o.entries))
         /\ pc' = "listing"
         /\ UNCHANGED <<PLAYLIST_START, PLAYLIST_END>>
    ELSE /\ sess' = sess
         /\ pc' = ReturnPc(sess)
         /\ SetWindow(ResetWindow(NO_OF_SEARCH_RESULTS))

\* ---------------------------------------------------------------- listing
Listing == pc = "listing" /\ LauncherOK
ListingAnswers ==
    Answers(ListingOptions(browser, Top.entries), TypedText \cup TypedNumbers \cup {Ctl("Main Menu")})

\* the listing loop continues with a re-fetched page, or ends on an unusable one
Refetched(w, o) ==
    IF Usable(o)
    THEN /\ SetWindow(w)
         /\ sess' = SetTop([Top EXCEPT !.entries = o.entries, !.ok = TRUE, !.cur = 0, !.vid = 0])
         /\ pc' = "listing"
    ELSE EndSession(TRUE)

ListingNext ==
    /\ Listing
    /\ \E raw \in ListingAnswers, o \in FetchOutcomes :
         LET w == NextWindow(PLAYLIST_START, PLAYLIST_END, NO_OF_SEARCH_RESULTS) IN
         /\ Got(raw).label = "Next"
         /\ w[1] <= MaxWindow
         /\ Step("listing", raw, Got(raw), o.kind)
         /\ calls' = run_yt_dlp(w[1], w[2], o)
         /\ Refetched(w, o)
    /\ UNCHANGED <<NO_OF_SEARCH_RESULTS, AUDIO_ONLY_MODE, AUTOPLAY_MODE, menu, playlists, subsFile>>

ListingPrevious ==
    /\ Listing
    /\ \E raw \in ListingAnswers, o \in FetchOutcomes :
         LET w == PrevWindow(browser, PLAYLIST_START, PLAYLIST_END, NO_OF_SEARCH_RESULTS) IN
         /\ Got(raw).label = "Previous"
         /\ Step("listing", raw, Got(raw), o.kind)
         /\ calls' = run_yt_dlp(w[1], w[2], o)
         /\ Refetched(w, o)
    /\ UNCHANGED <<NO_OF_SEARCH_RESULTS, AUDIO_ONLY_MODE, AUTOPLAY_MODE, menu, playlists, subsFile>>

\* yt-browser4 only: return "Main Menu" leaves the function before its tail
ListingMainMenu ==
    /\ Listing
    /\ browser = 4
    /\ \E raw \in ListingAnswers :
         /\ Got(raw).label = "Main Menu"
         /\ Step("listing", raw, Got(raw), "none")
    /\ calls' = <<>>
    /\ EndSession(FALSE)
    /\ UNCHANGED <<NO_OF_SEARCH_RESULTS, AUDIO_ONLY_MODE, AUTOPLAY_MODE, menu, playlists, subsFile>>

ListingBack ==
    /\ Listing
    /\ \E raw \in ListingAnswers :
         /\ Got(raw).label \in {"Back", ""}
         /\ Step("listing", raw, Got(raw), "none")
    /\ calls' = <<>>
    /\ EndSession(TRUE)
    /\ UNCHANGED <<NO_OF_SEARCH_RESULTS, AUDIO_ONLY_MODE, AUTOPLAY_MODE, menu, playlists, subsFile>>

\* slip: byebye() returns to the loop that called it
Exited_Returns ==
    /\ pc' = pc
    /\ calls' = <<>>
    /\ UNCHANGED <<NO_OF_SEARCH_RESULTS, PLAYLIST_START, PLAYLIST_END, AUDIO_ONLY_MODE,
                   AUTOPLAY_MODE, menu, sess, playlists, subsFile>>

\* byebye(): sys.exit unwinds every active call
Exited ==
    /\ pc' = "exited"
    /\ sess' = <<>>
    /\ calls' = <<>>
    /\ UNCHANGED <<NO_OF_SEARCH_RESULTS, PLAYLIST_START, PLAYLIST_END, AUDIO_ONLY_MODE,
                   AUTOPLAY_MODE, menu, playlists, subsFile>>

ListingExit ==
    /\ Listing
    /\ \E raw \in ListingAnswers :
         /\ Got(raw).label = "Exit"
         /\ Step("listing", raw, Got(raw), "none")
    /\ Exited

\* the try block: int(selection.split(' ')[0]), entries[sel_id - 1], video['title']
ListingItem ==
    /\ Listing
    /\ \E raw \in ListingAnswers :
         LET s == Got(raw)
             len == Len(Top.entries)
         IN
         /\ s.label \notin ListingControls(browser)
         /\ Step("listing", raw, s, "none")
         /\ IF s.label = "item" /\ PyIndexValid(len, s.n - 1)
            THEN IF Top.entries[PyIndex(len, s.n - 1)] = "null"
                 THEN pc' = "crashed" /\ sess' = <<>>             \* TypeError is not caught
                 ELSE /\ pc' = "item"
                      /\ sess' = SetTop([Top EXCEPT !.cur = IF browser = 2 THEN s.n - 1 ELSE 0,
                                                    !.vid = PyIndex(len, s.n - 1)])
            ELSE pc' = "listing" /\ sess' = sess                  \* ValueError, IndexError
    /\ calls' = <<>>
    /\ UNCHANGED <<NO_OF_SEARCH_RESULTS, PLAYLIST_START, PLAYLIST_END, AUDIO_ONLY_MODE,
                   AUTOPLAY_MODE, menu, playlists, subsFile>>

\* -------------------------------------------------------- item action menu
ItemOptions(b) ==
    IF b = 2
    THEN {Ctl("Watch"), Ctl("Toggle Audio Only"), Ctl("Toggle Autoplay"), Ctl("Download"),
          Ctl("Back"), Ctl("Exit")}
    ELSE {Ctl("Watch"), Ctl("Mix"), Ctl("Download"), Ctl("Play All"), Ctl("Back"), Ctl("Exit")}

\* labels of the item menu that have a branch
ItemHandled(b) ==
    IF b = 2
    THEN {"Watch", "Toggle Audio Only", "Toggle Autoplay", "Download", "Back", "", "Exit"}
    ELSE {"Watch", "Mix", "Download", "Back", "", "Exit"}

ItemMenu == pc = "item" /\ LauncherOK
ItemAnswers == Answers(ItemOptions(browser), TypedText)

ItemExit ==
    /\ ItemMenu
    /\ \E raw \in ItemAnswers :
         /\ Got(raw).label = "Exit"
         /\ Step("item", raw, Got(raw), "none")
    /\ Exited

\* break out of the item loop; the listing loop then tests search_results again
ItemBack ==
    /\ ItemMenu
    /\ \E raw \in ItemAnswers :
         /\ Got(raw).label \in {"Back", ""}
         /\ Step("item", raw, Got(raw), "none")
    /\ calls' = <<>>
    /\ IF Top.ok
       THEN /\ pc' = "listing"
            /\ sess' = SetTop([Top EXCEPT !.cur = 0, !.vid = 0])
            /\ UNCHANGED <<PLAYLIST_START, PLAYLIST_END>>
       ELSE EndSession(TRUE)
    /\ UNCHANGED <<NO_OF_SEARCH_RESULTS, AUDIO_ONLY_MODE, AUTOPLAY_MODE, menu, playlists, subsFile>>

\* a line without a branch, or typed text: the item loop prompts again
ItemOther ==
    /\ ItemMenu
    /\ \E raw \in ItemAnswers :
         /\ Got(raw).label \notin ItemHandled(browser)
         /\ Step("item", raw, Got(raw), "none")
    /\ calls' = <<>>
    /\ UNCHANGED <<NO_OF_SEARCH_RESULTS, PLAYLIST_START, PLAYLIST_END, AUDIO_ONLY_MODE,
                   AUTOPLAY_MODE, pc, menu, sess, playlists, subsFile>>

ToggleAudioOnly ==
    /\ ItemMenu
    /\ browser = 2
    /\ \E raw \in ItemAnswers :
         /\ Got(raw).label = "Toggle Audio Only"
         /\ Step("item", raw, Got(raw), "none")
    /\ AUDIO_ONLY_MODE' = ~AUDIO_ONLY_MODE
    /\ calls' = <<>>
    /\ UNCHANGED <<NO_OF_SEARCH_RESULTS, PLAYLIST_START, PLAYLIST_END,
                   AUTOPLAY_MODE, pc, menu, sess, playlists, subsFile>>

ToggleAutoplay ==
    /\ ItemMenu
    /\ browser = 2
    /\ \E raw \in ItemAnswers :
         /\ Got(raw).label = "Toggle Autoplay"
         /\ Step("item", raw, Got(raw), "none")
    /\ AUTOPLAY_MODE' = ~AUTOPLAY_MODE
    /\ calls' = <<>>
    /\ UNCHANGED <<NO_OF_SEARCH_RESULTS, PLAYLIST_START, PLAYLIST_END,
                   AUDIO_ONLY_MODE, pc, menu, sess, playlists, subsFile>>

\* Popen(..., start_new_session=True) and a notification
ItemDownload ==
    /\ ItemMenu
    /\ \E raw \in ItemAnswers :
         /\ Got(raw).label = "Download"
         /\ Step("item", raw, Got(raw), "none")
    /\ calls' = <<Download, Notify>>
    /\ UNCHANGED <<NO_OF_SEARCH_RESULTS, PLAYLIST_START, PLAYLIST_END, AUDIO_ONLY_MODE,
                   AUTOPLAY_MODE, pc, menu, sess, playlists, subsFile>>

\* slip: the player is always spawned with Popen
Watch2_NeverWaits ==
    /\ ItemMenu
    /\ browser = 2
    /\ \E raw \in ItemAnswers :
         /\ Got(raw).label = "Watch"
         /\ Step("item", raw, Got(raw), "none")
    /\ calls' = <<Player(FALSE, NoVideoArgs(PLAYER, AUDIO_ONLY_MODE))>>
    /\ pc' = "item"
    /\ UNCHANGED <<NO_OF_SEARCH_RESULTS, PLAYLIST_START, PLAYLIST_END, AUDIO_ONLY_MODE,
                   AUTOPLAY_MODE, menu, sess, playlists, subsFile>>

\* yt-browser2 Watch: subprocess.run when autoplay is on, Popen otherwise
Watch2 ==
    /\ ItemMenu
    /\ browser = 2
    /\ \E raw \in ItemAnswers :
         /\ Got(raw).label = "Watch"
         /\ Step("item", raw, Got(raw), "none")
    /\ calls' = <<Player(AUTOPLAY_MODE, NoVideoArgs(PLAYER, AUDIO_ONLY_MODE))>>
    /\ pc' = IF AUTOPLAY_MODE THEN "playing" ELSE "item"
    /\ UNCHANGED <<NO_OF_SEARCH_RESULTS, PLAYLIST_START, PLAYLIST_END, AUDIO_ONLY_MODE,
                   AUTOPLAY_MODE, menu, sess, playlists, subsFile>>

\* the blocking player returned: "Prepare next video" of the autoplay loop
PlayerExit ==
    /\ pc = "playing"
    /\ Step("playing", Ctl("player exit"), Ctl("player exit"), "none")
    /\ LET len == Len(Top.entries)
           ci == Top.cur + 1
       IN
       IF ci >= len
       THEN \E o \in FetchOutcomes :
              LET w == NextWindow(PLAYLIST_START, PLAYLIST_END, NO_OF_SEARCH_RESULTS)
                  n == Len(o.entries)
              IN
              /\ w[1] <= MaxWindow
              /\ SetWindow(w)
              /\ IF ~Usable(o)
                 THEN /\ calls' = run_yt_dlp(w[1], w[2], o)
                      /\ sess' = SetTop([Top EXCEPT !.ok = FALSE, !.cur = ci])
                      /\ pc' = "item"
                 ELSE IF n = 0
                 THEN /\ calls' = run_yt_dlp(w[1], w[2], o)
                      /\ sess' = SetTop([Top EXCEPT !.entries = o.entries, !.cur = 0])
                      /\ pc' = "item"
                 ELSE IF o.entries[1] = "null"
                 THEN /\ calls' = run_yt_dlp(w[1], w[2], o)
                      /\ sess' = <<>>
                      /\ pc' = "crashed"                         \* None.get
                 ELSE /\ calls' = run_yt_dlp(w[1], w[2], o)
                                     \o <<Player(TRUE, NoVideoArgs(PLAYER, AUDIO_ONLY_MODE))>>
                      /\ sess' = SetTop([Top EXCEPT !.entries = o.entries, !.cur = 0, !.vid = 1])
                      /\ pc' = "playing"
       ELSE /\ UNCHANGED <<PLAYLIST_START, PLAYLIST_END>>
            /\ IF Top.entries[PyIndex(len, ci)] = "null"
               THEN /\ calls' = <<>>
                    /\ sess' = <<>>
                    /\ pc' = "crashed"                           \* None.get
               ELSE /\ calls' = <<Player(TRUE, NoVideoArgs(PLAYER, AUDIO_ONLY_MODE))>>
                    /\ sess' = SetTop([Top EXCEPT !.cur = ci, !.vid = PyIndex(len, ci)])
                    /\ pc' = "playing"
    /\ UNCHANGED <<NO_OF_SEARCH_RESULTS, AUDIO_ONLY_MODE, AUTOPLAY_MODE, menu, playlists, subsFile>>

\* yt-browser4 Watch: the player is spawned and not awaited; a radio url whose
\* playlist is not cached (rd) first fetches its mix through run_yt_dlp
Watch4 ==
    /\ ItemMenu
    /\ browser = 4
    /\ \E raw \in ItemAnswers, rd \in BOOLEAN, o \in FetchOutcomes :
         /\ Got(raw).label = "Watch"
         /\ o.entries = <<>> /\ o.kind \in {"ok", "fail"}
         /\ ~rd => o.kind = "fail"
         /\ Step("item", raw, Got(raw), IF rd THEN o.kind ELSE "none")
         /\ calls' = (IF rd THEN run_yt_dlp(PLAYLIST_START, PLAYLIST_END, o) ELSE <<>>)
                        \o <<Player(FALSE, FALSE)>>
    /\ UNCHANGED <<NO_OF_SEARCH_RESULTS, PLAYLIST_START, PLAYLIST_END, AUDIO_ONLY_MODE,
                   AUTOPLAY_MODE, pc, menu, sess, playlists, subsFile>>

\* yt-browser4 Mix: a session inside the session
Mix ==
    /\ ItemMenu
    /\ browser = 4
    /\ Len(sess) < MaxDepth
    /\ \E raw \in ItemAnswers, o \in FetchOutcomes :
         /\ Got(raw).label = "Mix"
         /\ Step("item", raw, Got(raw), o.kind)
         /\ calls' = run_yt_dlp(PLAYLIST_START, PLAYLIST_END, o)
         /\ StartSession(o)
    /\ UNCHANGED <<NO_OF_SEARCH_RESULTS, AUDIO_ONLY_MODE, AUTOPLAY_MODE, menu, playlists, subsFile>>

\* --------------------------------------------------------------- main menu
MainOptions(b) ==
    IF b = 2
    THEN {Ctl("Search"), Ctl("Edit Config"), Ctl("Exit")}
    ELSE {Ctl("Your Feed"), Ctl("Search"), Ctl("Channels"), Ctl("Playlists"),
          Ctl("Edit Config"), Ctl("Exit")}

\* main-menu actions that fetch a page and open a session on it
MainSessionLabels(b) == IF b = 2 THEN {"Search"} ELSE {"Your Feed", "Search"}

MainHandled(b) ==
    MainSessionLabels(b) \cup {"Edit Config", "Exit"} \cup (IF b = 4 THEN {"Channels"} ELSE {})

MainMenu == pc = "main" /\ LauncherOK
MainAnswers == Answers(MainOptions(browser), TypedText)

MainExit ==
    /\ MainMenu
    /\ \E raw \in MainAnswers :
         /\ Got(raw).label = "Exit"
         /\ Step("main", raw, Got(raw), "none")
    /\ Exited

\* Your Feed (Trending is the same code with another url), or Search with a
\* non-empty term
MainSession ==
    /\ MainMenu
    /\ \E raw \in MainAnswers, o \in FetchOutcomes :
         /\ Got(raw).label \in MainSessionLabels(browser)
         /\ Step("main", raw, Got(raw), o.kind)
         /\ calls' = run_yt_dlp(PLAYLIST_START, PLAYLIST_END, o)
         /\ StartSession(o)
    /\ UNCHANGED <<NO_OF_SEARCH_RESULTS, AUDIO_ONLY_MODE, AUTOPLAY_MODE, menu, playlists, subsFile>>

\* Search with an empty term, a line without a branch, or typed text: main_menu()
MainOther ==
    /\ MainMenu
    /\ \E raw \in MainAnswers :
         /\ Got(raw).label \notin (MainHandled(browser) \ {"Search"})
         /\ Step("main", raw, Got(raw), "none")
    /\ calls' = <<>>
    /\ UNCHANGED <<NO_OF_SEARCH_RESULTS, PLAYLIST_START, PLAYLIST_END, AUDIO_ONLY_MODE,
                   AUTOPLAY_MODE, pc, menu, sess, playlists, subsFile>>

\* the editor runs, then load_config() reads the page size and sets PLAYLIST_END
MainEditConfig ==
    /\ MainMenu
    /\ \E raw \in MainAnswers, p \in 1..MaxPageSize :
         /\ Got(raw).label = "Edit Config"
         /\ Step("main", raw, Got(raw), "none")
         /\ NO_OF_SEARCH_RESULTS' = p
         /\ PLAYLIST_END' = p
    /\ calls' = <<Editor>>
    /\ UNCHANGED <<PLAYLIST_START, AUDIO_ONLY_MODE, AUTOPLAY_MODE, pc, menu, sess,
                   playlists, subsFile>>

\* yt-browser4 Channels: subscriptions are fetched when the file is missing
MainChannels ==
    /\ MainMenu
    /\ browser = 4
    /\ \E raw \in MainAnswers, o \in FetchOutcomes :
         /\ Got(raw).label = "Channels"
         /\ subsFile => o.kind = "fail"
         /\ Step("main", raw, Got(raw), IF subsFile THEN "none" ELSE o.kind)
         /\ calls' = IF subsFile THEN <<>> ELSE run_yt_dlp(PLAYLIST_START, PLAYLIST_END, o)
         /\ IF subsFile \/ o.kind \in {"ok", "noentries"}
            THEN subsFile' = TRUE /\ pc' = "channels" /\ menu' = "channels"
            ELSE UNCHANGED <<subsFile, pc, menu>>
    /\ UNCHANGED <<NO_OF_SEARCH_RESULTS, PLAYLIST_START, PLAYLIST_END, AUDIO_ONLY_MODE,
                   AUTOPLAY_MODE, sess, playlists>>

\* ------------------------------------------------- channel list (main_menu)
ChannelsOptions == {Ctl("channel"), Ctl("Main Menu"), Ctl("Exit")}
ChannelsMenu == pc = "channels" /\ LauncherOK
ChannelsAnswers == Answers(ChannelsOptions, TypedText)

ChannelsExit ==
    /\ ChannelsMenu
    /\ \E raw \in ChannelsAnswers :
         /\ Got(raw).label = "Exit"
         /\ Step("channels", raw, Got(raw), "none")
    /\ Exited

\* Main Menu breaks to main_menu(); a channel opens channels_explorer; anything
\* else prompts again
ChannelsSelect ==
    /\ ChannelsMenu
    /\ \E raw \in ChannelsAnswers :
         /\ Got(raw).label /= "Exit"
         /\ Step("channels", raw, Got(raw), "none")
         /\ LET to == CASE Got(raw).label = "Main Menu" -> "main"
                        [] Got(raw).label = "channel" -> "chan_actions"
                        [] OTHER -> "channels"
            IN pc' = to /\ menu' = to
    /\ calls' = <<>>
    /\ UNCHANGED <<NO_OF_SEARCH_RESULTS, PLAYLIST_START, PLAYLIST_END, AUDIO_ONLY_MODE,
                   AUTOPLAY_MODE, sess, playlists, subsFile>>

\* ------------------------------------------------------- channels_explorer
ChanOptions ==
    {Ctl("Videos"), Ctl("Search"), Ctl("Playlists"), Ctl("Featured"), Ctl("Back"), Ctl("Exit")}
ChanMenu == pc = "chan_actions" /\ LauncherOK
ChanAnswers == Answers(ChanOptions, TypedText)

ChanExit ==
    /\ ChanMenu
    /\ \E raw \in ChanAnswers :
         /\ Got(raw).label = "Exit"
         /\ Step("chan_actions", raw, Got(raw), "none")
    /\ Exited

\* Back or nothing returns to the channel list; a line without a fetch prompts again
ChanSelect ==
    /\ ChanMenu
    /\ \E raw \in ChanAnswers :
         /\ Got(raw).label \notin {"Exit", "Videos", "Search", "Playlists"}
         /\ Step("chan_actions", raw, Got(raw), "none")
         /\ LET to == IF Got(raw).label \in {"Back", ""} THEN "channels" ELSE "chan_actions"
            IN pc' = to /\ menu' = to
    /\ calls' = <<>>
    /\ UNCHANGED <<NO_OF_SEARCH_RESULTS, PLAYLIST_START, PLAYLIST_END, AUDIO_ONLY_MODE,
                   AUTOPLAY_MODE, sess, playlists, subsFile>>

ChanSession ==
    /\ ChanMenu
    /\ \E raw \in ChanAnswers, o \in FetchOutcomes :
         /\ Got(raw).label \in {"Videos", "Search"}
         /\ Step("chan_actions", raw, Got(raw), o.kind)
         /\ calls' = run_yt_dlp(PLAYLIST_START, PLAYLIST_END, o)
         /\ StartSession(o)
    /\ UNCHANGED <<NO_OF_SEARCH_RESULTS, AUDIO_ONLY_MODE, AUTOPLAY_MODE, menu, playlists, subsFile>>

\* playlists_explorer(url): fetch, return on None, number the titles
ChanPlaylists ==
    /\ ChanMenu
    /\ \E raw \in ChanAnswers, o \in FetchOutcomes :
         /\ Got(raw).label = "Playlists"
         /\ Step("chan_actions", raw, Got(raw), o.kind)
         /\ calls' = run_yt_dlp(PLAYLIST_START, PLAYLIST_END, o)
         /\ IF o.kind \in {"fail", "badjson"}
            THEN UNCHANGED <<pc, menu, playlists>>
            ELSE IF \E i \in 1..Len(o.entries) : o.entries[i] = "null"
            THEN pc' = "crashed" /\ UNCHANGED <<menu, playlists>>      \* None.get
            ELSE pc' = "playlists" /\ menu' = "playlists" /\ playlists' = o.entries
    /\ UNCHANGED <<NO_OF_SEARCH_RESULTS, PLAYLIST_START, PLAYLIST_END, AUDIO_ONLY_MODE,
                   AUTOPLAY_MODE, sess, subsFile>>

\* ------------------------------------------------------ playlists_explorer
PlaylistsOptions == {Item(i) : i \in 1..Len(playlists)} \cup {Ctl("Back"), Ctl("Exit")}
PlaylistsMenu == pc = "playlists" /\ LauncherOK
PlaylistsAnswers == Answers(PlaylistsOptions, TypedText \cup TypedNumbers)

\* "Back" in sel or not sel
PlaylistsBack ==
    /\ PlaylistsMenu
    /\ \E raw \in PlaylistsAnswers :
         /\ Got(raw).label \in {"Back", ""}
         /\ Step("playlists", raw, Got(raw), "none")
    /\ pc' = "chan_actions"
    /\ menu' = "chan_actions"
    /\ playlists' = <<>>
    /\ calls' = <<>>
    /\ UNCHANGED <<NO_OF_SEARCH_RESULTS, PLAYLIST_START, PLAYLIST_END, AUDIO_ONLY_MODE,
                   AUTOPLAY_MODE, sess, subsFile>>

PlaylistsExit ==
    /\ PlaylistsMenu
    /\ \E raw \in PlaylistsAnswers :
         /\ Got(raw).label = "Exit"
         /\ Step("playlists", raw, Got(raw), "none")
    /\ Exited

\* a line that is the title of an entry opens that playlist (the titles here
\* hold no control word; the dispatch on spelled-out titles is PlaylistsDispatch)
PlaylistsOpen ==
    /\ PlaylistsMenu
    /\ \E raw \in PlaylistsAnswers, o \in FetchOutcomes :
         /\ Got(raw).label = "item"
         /\ Got(raw).n \in 1..Len(playlists)
         /\ Step("playlists", raw, Got(raw), o.kind)
         /\ calls' = run_yt_dlp(PLAYLIST_START, PLAYLIST_END, o)
         /\ StartSession(o)
    /\ UNCHANGED <<NO_OF_SEARCH_RESULTS, AUDIO_ONLY_MODE, AUTOPLAY_MODE, menu, playlists, subsFile>>

\* no entry has that title: prompt again
PlaylistsOther ==
    /\ PlaylistsMenu
    /\ \E raw \in PlaylistsAnswers :
         /\ Got(raw).label \notin {"Back", "", "Exit"}
         /\ ~(Got(raw).label = "item" /\ Got(raw).n \in 1..Len(playlists))
         /\ Step("playlists", raw, Got(raw), "none")
    /\ calls' = <<>>
    /\ UNCHANGED <<NO_OF_SEARCH_RESULTS, PLAYLIST_START, PLAYLIST_END, AUDIO_ONLY_MODE,
                   AUTOPLAY_MODE, pc, menu, sess, playlists, subsFile>>

\* yt-browser2: CONFIG has no "ROFI_THEME" unless the config file sets it, and
\* the rofi path of launcher() raises KeyError at any prompt
LauncherKeyError ==
    /\ pc \in {"main", "channels", "chan_actions", "playlists", "listing", "item"}
    /\ ~LauncherOK
    /\ Step("launcher", Ctl(""), Ctl(""), "none")
    /\ pc' = "crashed"
    /\ calls' = <<>>
    /\ UNCHANGED <<NO_OF_SEARCH_RESULTS, PLAYLIST_START, PLAYLIST_END, AUDIO_ONLY_MODE,
                   AUTOPLAY_MODE, menu, sess, playlists, subsFile>>

Next ==
    \/ MainExit \/ MainSession \/ MainOther \/ MainEditConfig \/ MainChannels
    \/ ChannelsExit \/ ChannelsSelect
    \/ ChanExit \/ ChanSelect \/ ChanSession \/ ChanPlaylists
    \/ PlaylistsBack \/ PlaylistsExit \/ PlaylistsOpen \/ PlaylistsOther
    \/ ListingNext \/ ListingPrevious \/ ListingMainMenu \/ ListingBack \/ ListingExit
    \/ ListingItem
    \/ ItemExit \/ ItemBack \/ ItemOther \/ ToggleAudioOnly \/ ToggleAutoplay
    \/ ItemDownload \/ Watch2 \/ PlayerExit \/ Watch4 \/ Mix
    \/ LauncherKeyError

Spec == Init /\ [][Next]_vars

\* ============================================================= fibonacci.py
\* the browsers are not running
BrowserOff ==
    /\ browser = 2
    /\ PREFERRED_SELECTOR = "fzf"
    /\ hasRofiTheme = TRUE
    /\ PLAYER = "mpv"
    /\ NO_OF_SEARCH_RESULTS = 1
    /\ PLAYLIST_START = 1
    /\ PLAYLIST_END = 1
    /\ AUDIO_ONLY_MODE = FALSE
    /\ AUTOPLAY_MODE = FALSE
    /\ pc = "off"
    /\ menu = "off"
    /\ sess = <<>>
    /\ playlists = <<>>
    /\ subsFile = FALSE
    /\ calls = <<>>
    /\ last = Sel("off", 0, Ctl(""), Ctl(""), "none")
    /\ prevWin = <<1, 1>>
    /\ nextFrom = <<0, 0>>

\* strings the user may enter at '> ': the decimal strings of 0..MaxN, the two
\* spellings of the quit word, and strings that are not decimal
DecimalStrings == {ToString(v) : v \in 0..MaxN}
Responses == DecimalStrings \cup {"quit", "QUIT", "", "abc", "-1"}

\* str.isdecimal() and int() on the strings of Responses
isdecimal(r) == r \in DecimalStrings
int(r) == CHOOSE v \in 0..MaxN : ToString(v) = r

\* lines 7-15: one pass of the input loop
ReadResponse ==
    /\ fpc = "prompt"
    /\ \E r \in Responses :
         /\ response' = r
         /\ IF r = "quit"
            THEN /\ fpc' = "exited"
                 /\ UNCHANGED <<nth, printed, reported, iterations>>
            ELSE IF isdecimal(r) /\ int(r) /= 0
            THEN /\ nth' = int(r)
                 /\ fpc' = "branch"
                 /\ printed' = <<>>
                 /\ reported' = <<>>
                 /\ iterations' = 0
            ELSE \* 'Please enter a number greater than 0.'
                 /\ fpc' = "prompt"
                 /\ UNCHANGED <<nth, printed, reported, iterations>>
    /\ UNCHANGED <<secondTolastNumber, lastNumber, fibNumbeCalculated, nextNumber>>
    /\ UNCHANGED <<browserVars, lobsterVars, tvVars, renderVars, pairVars, plVars, jlVars, shVars>>

\* lines 18-22
FibFirst ==
    /\ fpc = "branch"
    /\ nth = 1
    /\ printed' = <<"0">>
    /\ reported' = <<1, 0>>
    /\ fpc' = "prompt"
    /\ UNCHANGED <<response, nth, secondTolastNumber, lastNumber, fibNumbeCalculated,
                   nextNumber, iterations>>
    /\ UNCHANGED <<browserVars, lobsterVars, tvVars, renderVars, pairVars, plVars, jlVars, shVars>>

\* lines 23-27
FibSecond ==
    /\ fpc = "branch"
    /\ nth = 2
    /\ printed' = <<"o", "1">>
    /\ reported' = <<2, 1>>
    /\ fpc' = "prompt"
    /\ UNCHANGED <<response, nth, secondTolastNumber, lastNumber, fibNumbeCalculated,
                   nextNumber, iterations>>
    /\ UNCHANGED <<browserVars, lobsterVars, tvVars, renderVars, pairVars, plVars, jlVars, shVars>>

\* lines 28-35 (the pause of lines 28-30 is taken for nth >= 10000 only)
FibStart ==
    /\ fpc = "branch"
    /\ nth \notin {1, 2}
    /\ secondTolastNumber' = 0
    /\ lastNumber' = 1
    /\ fibNumbeCalculated' = 2
    /\ printed' = <<"o", "1">>
    /\ fpc' = "loop"
    /\ UNCHANGED <<response, nth, nextNumber, reported, iterations>>
    /\ UNCHANGED <<browserVars, lobsterVars, tvVars, renderVars, pairVars, plVars, jlVars, shVars>>

\* lines 37-50: one pass of the computation loop
FibIter ==
    /\ fpc = "loop"
    /\ nextNumber' = secondTolastNumber + lastNumber
    /\ fibNumbeCalculated' = fibNumbeCalculated + 1
    /\ printed' = Append(printed, ToString(nextNumber'))
    /\ iterations' = iterations + 1
    /\ IF fibNumbeCalculated' = nth
       THEN /\ reported' = <<fibNumbeCalculated', nextNumber'>>
            /\ fpc' = "prompt"
            /\ UNCHANGED <<secondTolastNumber, lastNumber>>
       ELSE /\ secondTolastNumber' = lastNumber
            /\ lastNumber' = nextNumber'
            /\ UNCHANGED <<reported, fpc>>
    /\ UNCHANGED <<response, nth>>
    /\ UNCHANGED <<browserVars, lobsterVars, tvVars, renderVars, pairVars, plVars, jlVars, shVars>>

\* state when the outer loop is first entered
FibInit ==
    /\ BrowserOff
    /\ LobsterOff
    /\ TvOff
    /\ RenderOff
    /\ PairOff
    /\ PlOff
    /\ JlOff
    /\ ShOff
    /\ fpc = "prompt"
    /\ response = ""
    /\ nth = 0
    /\ secondTolastNumber = 0
    /\ lastNumber = 0
    /\ fibNumbeCalculated = 0
    /\ nextNumber = 0
    /\ printed = <<>>
    /\ reported = <<>>
    /\ iterations = 0

FibNext ==
    \/ ReadResponse
    \/ FibFirst
    \/ FibSecond
    \/ FibStart
    \/ FibIter

FibSpec == FibInit /\ [][FibNext]_vars

\* ================================================================ stream.py
\* lists of at most n items drawn from S
Lists(S, n) == UNION {[1..k -> S] : k \in 0..n}

\* what the user may type at the search prompt and at a numbered menu
Queries == {"q", "Q", "", "matrix"}
ChoiceNumbers == (-1)..(MaxItems + 1)
Choices == {ToString(v) : v \in ChoiceNumbers} \cup {"q", "Q", "b", "", "abc"}
NextAnswers == {"y", "Y", "n", ""}

\* str.lower() on the strings above
lower(c) == IF c = "Q" THEN "q" ELSE IF c = "Y" THEN "y" ELSE c

\* int(choice): ValueError unless the string is a number
IsNumber(c) == \E v \in ChoiceNumbers : ToString(v) = c
Number(c) == CHOOSE v \in ChoiceNumbers : ToString(v) = c

\* select_from_list, lines 92-102, for one input: ret "None" is `return None`,
\* "again" is 'Invalid selection. Try again.' and the prompt again, "item" is
\* `return items[idx]` with pos = idx + 1
select_from_list(its, c) ==
    IF lower(c) = "q" THEN [ret |-> "None", pos |-> 0]
    ELSE IF ~IsNumber(c) THEN [ret |-> "None", pos |-> 0]
    ELSE LET idx == Number(c) - 1
         IN  IF 0 <= idx /\ idx < Len(its)
             THEN [ret |-> "item", pos |-> idx + 1]
             ELSE [ret |-> "again", pos |-> 0]

\* back at the top of run()'s loop: the search prompt is issued
ToSearch ==
    /\ lpc' = "search"
    /\ items' = <<>>

\* run(), lines 322-336
SearchPrompt ==
    /\ lpc = "search"
    /\ \E q \in Queries :
         /\ query' = q
         /\ IF lower(q) = "q"
            THEN lpc' = "done" /\ UNCHANGED items
            ELSE IF q = ""
            THEN UNCHANGED <<lpc, items>>
            ELSE \E results \in Lists({"movie", "tv"}, MaxItems) :
                   IF results = <<>>
                   THEN UNCHANGED <<lpc, items>>
                   ELSE lpc' = "media" /\ items' = results
    /\ playing' = FALSE
    /\ UNCHANGED <<choice, media>>
    /\ UNCHANGED <<browserVars, fibVars, tvVars, renderVars, pairVars, plVars, jlVars, shVars>>

\* run(), lines 339-347, with handle_movie (265-274) and handle_tv_show up to
\* its season menu (279-284)
SelectMedia ==
    /\ lpc = "media"
    /\ \E c \in Choices :
         /\ choice' = c
         /\ LET r == select_from_list(items, c)
            IN  CASE r.ret = "again" ->
                       /\ playing' = FALSE
                       /\ UNCHANGED <<lpc, items, media>>
                  [] r.ret = "None" ->
                       /\ ToSearch
                       /\ playing' = FALSE
                       /\ UNCHANGED media
                  [] r.ret = "item" ->
                       /\ media' = items[r.pos]
                       /\ IF media' = "movie"
                          THEN /\ playing' \in BOOLEAN
                               /\ ToSearch
                          ELSE /\ playing' = FALSE
                               /\ \E got \in Lists({"season"}, MaxItems) :
                                    IF got = <<>>
                                    THEN ToSearch
                                    ELSE lpc' = "season" /\ items' = got
    /\ UNCHANGED query
    /\ UNCHANGED <<browserVars, fibVars, tvVars, renderVars, pairVars, plVars, jlVars, shVars>>

\* handle_tv_show, lines 284-292, up to its episode menu
SelectSeason ==
    /\ lpc = "season"
    /\ \E c \in Choices :
         /\ choice' = c
         /\ LET r == select_from_list(items, c)
            IN  CASE r.ret = "again" -> UNCHANGED <<lpc, items>>
                  [] r.ret = "None" -> ToSearch
                  [] r.ret = "item" ->
                       \E got \in Lists({"episode"}, MaxItems) :
                         IF got = <<>>
                         THEN ToSearch
                         ELSE lpc' = "episode" /\ items' = got
    /\ playing' = FALSE
    /\ UNCHANGED <<query, media>>
    /\ UNCHANGED <<browserVars, fibVars, tvVars, renderVars, pairVars, plVars, jlVars, shVars>>

\* handle_tv_show, lines 294-308: one pass of the episode loop; without an
\* episode id or a video link the loop shows the episode menu again
SelectEpisode ==
    /\ lpc = "episode"
    /\ \E c \in Choices :
         /\ choice' = c
         /\ LET r == select_from_list(items, c)
            IN  CASE r.ret = "again" -> playing' = FALSE /\ UNCHANGED <<lpc, items>>
                  [] r.ret = "None" -> playing' = FALSE /\ ToSearch
                  [] r.ret = "item" ->
                       /\ playing' \in BOOLEAN
                       /\ lpc' = IF playing' THEN "next" ELSE "episode"
                       /\ UNCHANGED items
    /\ UNCHANGED <<query, media>>
    /\ UNCHANGED <<browserVars, fibVars, tvVars, renderVars, pairVars, plVars, jlVars, shVars>>

\* handle_tv_show, lines 311-313
PlayNext ==
    /\ lpc = "next"
    /\ \E c \in NextAnswers :
         /\ choice' = c
         /\ IF lower(c) /= "y"
            THEN ToSearch
            ELSE UNCHANGED items /\ lpc' = "episode"
    /\ playing' = FALSE
    /\ UNCHANGED <<query, media>>
    /\ UNCHANGED <<browserVars, fibVars, tvVars, renderVars, pairVars, plVars, jlVars, shVars>>

\* run() entered, before its first prompt
LobsterInit ==
    /\ BrowserOff
    /\ FibOff
    /\ TvOff
    /\ RenderOff
    /\ PairOff
    /\ PlOff
    /\ JlOff
    /\ ShOff
    /\ lpc = "search"
    /\ query = ""
    /\ choice = ""
    /\ items = <<>>
    /\ media = ""
    /\ playing = FALSE

LobsterNext ==
    \/ SearchPrompt
    \/ SelectMedia
    \/ SelectSeason
    \/ SelectEpisode
    \/ PlayNext

LobsterSpec == LobsterInit /\ [][LobsterNext]_vars

\* =============================================================== stream2.py
\* data ids an episode list may hold; a list may hold the same entry twice
EpisodeIds == {"e1", "e2"}

\* what the user may type at a numbered menu of stream2.py ("^C": Ctrl-C)
TvChoices == {ToString(v) : v \in 0..(MaxEpisodes + 1)} \cup {"q", "b", "^C", "abc"}
MenuChoices == {"1", "2", "3", "4", "5", "q", "", "x"}

\* select_from_list of stream2.py, lines 254-274, for one input: "exit" is
\* sys.exit(0), "None" is `return None`, "again" the prompt again, "item" is
\* `return items[idx]` with pos = idx + 1
select_from_list2(its, c) ==
    IF c = "q" THEN [ret |-> "exit", pos |-> 0]
    ELSE IF c \in {"b", "^C"} THEN [ret |-> "None", pos |-> 0]
    ELSE IF \A v \in 0..(MaxEpisodes + 1) : ToString(v) /= c THEN [ret |-> "again", pos |-> 0]
    ELSE LET idx == (CHOOSE v \in 0..(MaxEpisodes + 1) : ToString(v) = c) - 1
         IN  IF 0 <= idx /\ idx < Len(its)
             THEN [ret |-> "item", pos |-> idx + 1]
             ELSE [ret |-> "again", pos |-> 0]

\* list.index(x): 0-based position of the first element equal to x
index(list, x) == CHOOSE i \in 0..(Len(list) - 1) :
                      /\ list[i + 1] = x
                      /\ \A j \in 0..(i - 1) : list[j + 1] /= x

\* lines 562-566: the loop test with index idx on list eps, up to the episode
\* menu (line 567) or, when auto-continuing, line 577
EpisodeLoop(eps, idx) ==
    IF idx < Len(eps)
    THEN /\ episode' = eps[idx + 1]
         /\ tvpc' = IF idx = 0 \/ ~auto_next THEN "episode" ELSE "fetch"
    ELSE /\ tvpc' = "season"
         /\ UNCHANGED episode

\* run(), lines 702-741, with show_settings and handle_tv_show up to line 543
TvRun ==
    /\ tvpc = "main"
    /\ \E c \in {"1", "2", "q", "x"} :
         /\ tv_choice' = c
         /\ CASE c = "1" ->
                   \E got \in Lists({"season"}, MaxItems) :
                     /\ IF got = <<>>
                        THEN UNCHANGED <<tvpc, seasons>>
                        ELSE tvpc' = "season" /\ seasons' = got
                     /\ UNCHANGED auto_next
              [] c = "2" ->
                   /\ auto_next' \in BOOLEAN
                   /\ UNCHANGED <<tvpc, seasons>>
              [] c = "q" ->
                   /\ tvpc' = "exited"
                   /\ UNCHANGED <<auto_next, seasons>>
              [] OTHER -> UNCHANGED <<tvpc, auto_next, seasons>>
    /\ played' = ""
    /\ UNCHANGED <<episodes, current_episode_idx, episode>>
    /\ UNCHANGED <<browserVars, fibVars, lobsterVars, renderVars, pairVars, plVars, jlVars, shVars>>

\* handle_tv_show, lines 544-566
TvSelectSeason ==
    /\ tvpc = "season"
    /\ \E c \in TvChoices :
         /\ tv_choice' = c
         /\ LET r == select_from_list2(seasons, c)
            IN  CASE r.ret = "exit" ->
                       /\ tvpc' = "exited"
                       /\ UNCHANGED <<episodes, current_episode_idx, episode>>
                  [] r.ret = "None" ->
                       /\ tvpc' = "main"
                       /\ UNCHANGED <<episodes, current_episode_idx, episode>>
                  [] r.ret = "again" ->
                       UNCHANGED <<tvpc, episodes, current_episode_idx, episode>>
                  [] r.ret = "item" ->
                       \E got \in Lists(EpisodeIds, MaxEpisodes) :
                         /\ episodes' = got
                         /\ IF got = <<>>
                            THEN UNCHANGED <<tvpc, current_episode_idx, episode>>
                            ELSE /\ current_episode_idx' = 0
                                 /\ EpisodeLoop(got, 0)
    /\ played' = ""
    /\ UNCHANGED <<auto_next, seasons>>
    /\ UNCHANGED <<browserVars, fibVars, lobsterVars, renderVars, pairVars, plVars, jlVars, shVars>>

\* handle_tv_show, lines 567-575
TvSelectEpisode ==
    /\ tvpc = "episode"
    /\ \E c \in TvChoices :
         /\ tv_choice' = c
         /\ LET shown == SubSeq(episodes, current_episode_idx + 1, Len(episodes))
                r == select_from_list2(shown, c)
            IN  CASE r.ret = "exit" ->
                       /\ tvpc' = "exited"
                       /\ UNCHANGED <<current_episode_idx, episode>>
                  [] r.ret = "None" ->
                       /\ tvpc' = "season"
                       /\ UNCHANGED <<current_episode_idx, episode>>
                  [] r.ret = "again" ->
                       UNCHANGED <<tvpc, current_episode_idx, episode>>
                  [] r.ret = "item" ->
                       /\ episode' = shown[r.pos]
                       /\ current_episode_idx' = index(episodes, shown[r.pos])
                       /\ tvpc' = "fetch"
    /\ played' = ""
    /\ UNCHANGED <<auto_next, seasons, episodes>>
    /\ UNCHANGED <<browserVars, fibVars, lobsterVars, renderVars, pairVars, plVars, jlVars, shVars>>

\* TvPlayEpisode without the last-episode test of line 595
TvPlayEpisode_AlwaysMenu ==
    /\ tvpc = "fetch"
    /\ \E idOk, linkOk \in BOOLEAN :
         IF ~idOk
         THEN /\ current_episode_idx' = current_episode_idx + 1
              /\ EpisodeLoop(episodes, current_episode_idx + 1)
              /\ played' = ""
         ELSE /\ played' = IF linkOk THEN episode ELSE ""
              /\ tvpc' = "menu"
              /\ UNCHANGED <<current_episode_idx, episode>>
    /\ UNCHANGED <<auto_next, seasons, episodes, tv_choice>>
    /\ UNCHANGED <<browserVars, fibVars, lobsterVars, renderVars, pairVars, plVars, jlVars, shVars>>

\* handle_tv_show, lines 577-595 and 621-623: idOk is get_episode_id's outcome,
\* linkOk get_video_link's
TvPlayEpisode ==
    /\ tvpc = "fetch"
    /\ \E idOk, linkOk \in BOOLEAN :
         IF ~idOk
         THEN /\ current_episode_idx' = current_episode_idx + 1
              /\ EpisodeLoop(episodes, current_episode_idx + 1)
              /\ played' = ""
         ELSE /\ played' = IF linkOk THEN episode ELSE ""
              /\ tvpc' = IF current_episode_idx < Len(episodes) - 1 THEN "menu" ELSE "season"
              /\ UNCHANGED <<current_episode_idx, episode>>
    /\ UNCHANGED <<auto_next, seasons, episodes, tv_choice>>
    /\ UNCHANGED <<browserVars, fibVars, lobsterVars, renderVars, pairVars, plVars, jlVars, shVars>>

\* handle_tv_show, lines 605-620, then the loop test again
TvAfterMenu ==
    /\ tvpc = "menu"
    /\ \E c \in MenuChoices :
         /\ tv_choice' = c
         /\ CASE c = "2" ->
                   /\ UNCHANGED current_episode_idx
                   /\ EpisodeLoop(episodes, current_episode_idx)
              [] c = "3" ->
                   /\ current_episode_idx' = 0
                   /\ EpisodeLoop(episodes, 0)
              [] c = "4" ->
                   /\ tvpc' = "season"
                   /\ UNCHANGED <<current_episode_idx, episode>>
              [] c = "5" ->
                   /\ tvpc' = "main"
                   /\ UNCHANGED <<current_episode_idx, episode>>
              [] c = "q" ->
                   /\ tvpc' = "exited"
                   /\ UNCHANGED <<current_episode_idx, episode>>
              [] OTHER ->
                   /\ current_episode_idx' = current_episode_idx + 1
                   /\ EpisodeLoop(episodes, current_episode_idx + 1)
    /\ played' = ""
    /\ UNCHANGED <<auto_next, seasons, episodes>>
    /\ UNCHANGED <<browserVars, fibVars, lobsterVars, renderVars, pairVars, plVars, jlVars, shVars>>

\* run() at its first main menu, after Config.load_config
TvInit ==
    /\ BrowserOff
    /\ FibOff
    /\ LobsterOff
    /\ RenderOff
    /\ PairOff
    /\ PlOff
    /\ JlOff
    /\ ShOff
    /\ tvpc = "main"
    /\ auto_next \in BOOLEAN
    /\ seasons = <<>>
    /\ episodes = <<>>
    /\ current_episode_idx = 0
    /\ episode = ""
    /\ tv_choice = ""
    /\ played = ""

TvNext ==
    \/ TvRun
    \/ TvSelectSeason
    \/ TvSelectEpisode
    \/ TvPlayEpisode
    \/ TvAfterMenu

TvSpec == TvInit /\ [][TvNext]_vars

\* ===================================================== rendering of a page
\* an entry of search_results["entries"]: None, or a dict with a title
NoneEntry == [none |-> TRUE, title |-> ""]
Entry(t) == [none |-> FALSE, title |-> t]
FetchedPages == Lists({NoneEntry} \cup {Entry(t) : t \in {"a", "2 b"}}, MaxListed)

\* lines 597-598 / 435-436: the number prefix of entry i (0-based) among n
num(i, n) == IF n < 10 /\ i + 1 < 10 THEN "0" \o ToString(i + 1) ELSE ToString(i + 1)

\* the titles of the entries that are not None, in order
TitlesOf(es) ==
    LET kept == SelectSeq(es, LAMBDA e : ~e.none)
    IN  [i \in 1..Len(kept) |-> kept[i].title]

\* lines 594-599 / 432-437: every entry's title is rewritten in place
Numbered(es) ==
    [i \in 1..Len(es) |->
        IF es[i].none THEN es[i]
        ELSE Entry(num(i - 1, Len(es)) \o " " \o es[i].title)]

\* one pass of lines 587-615 / 427-452, up to launcher()
RenderListing ==
    /\ rpc = "render"
    /\ search_results' = IF ~download_images THEN Numbered(search_results) ELSE search_results
    /\ titles' = TitlesOf(search_results')
    /\ download_images' = IF ENABLE_PREVIEW /\ selector = "fzf" /\ ~download_images
                          THEN TRUE ELSE download_images
    /\ displays' = displays + 1
    /\ rpc' = "prompt"
    /\ UNCHANGED <<ENABLE_PREVIEW, selector, fetched>>
    /\ UNCHANGED <<browserVars, fibVars, lobsterVars, tvVars, pairVars, plVars, jlVars, shVars>>

\* the loop is entered again with the same search_results: a malformed
\* selection (line 643 / 481) or the end of the item menu
Redisplay ==
    /\ rpc = "prompt"
    /\ displays <= MaxRedisplays
    /\ rpc' = "render"
    /\ UNCHANGED <<ENABLE_PREVIEW, selector, download_images, fetched, search_results, titles, displays>>
    /\ UNCHANGED <<browserVars, fibVars, lobsterVars, tvVars, pairVars, plVars, jlVars, shVars>>

\* Next or Previous: lines 620-633 / 457-471
Refetch ==
    /\ rpc = "prompt"
    /\ \E page \in FetchedPages :
         /\ fetched' = page
         /\ search_results' = page
    /\ download_images' = FALSE
    /\ displays' = 0
    /\ rpc' = "render"
    /\ UNCHANGED <<ENABLE_PREVIEW, selector, titles>>
    /\ UNCHANGED <<browserVars, fibVars, lobsterVars, tvVars, pairVars, plVars, jlVars, shVars>>

\* playlist_explorer entered with a fetched page (lines 582-585 / 423-426)
RenderInit ==
    /\ BrowserOff
    /\ FibOff
    /\ LobsterOff
    /\ TvOff
    /\ PairOff
    /\ PlOff
    /\ JlOff
    /\ ShOff
    /\ rpc = "render"
    /\ ENABLE_PREVIEW \in BOOLEAN
    /\ selector \in {"fzf", "rofi"}
    /\ download_images = FALSE
    /\ fetched \in FetchedPages
    /\ search_results = fetched
    /\ titles = <<>>
    /\ displays = 0

RenderNext ==
    \/ RenderListing
    \/ Redisplay
    \/ Refetch

RenderSpec == RenderInit /\ [][RenderNext]_vars

\* ============================================ the two listings side by side
\* Next in both listings: lines 457-460 of yt-browser2, 620-623 of yt-browser4
PairNext ==
    /\ Len(fetches2) < MaxSteps
    /\ win2' = NextWindow(win2[1], win2[2], pageSize)
    /\ win4' = NextWindow(win4[1], win4[2], pageSize)
    /\ fetches2' = Append(fetches2, win2')
    /\ fetches4' = Append(fetches4, win4')
    /\ UNCHANGED pageSize
    /\ UNCHANGED <<browserVars, fibVars, lobsterVars, tvVars, renderVars, plVars, jlVars, shVars>>

\* Previous in both listings: lines 463-469 of yt-browser2, 626-631 of yt-browser4
PairPrevious ==
    /\ Len(fetches2) < MaxSteps
    /\ win2' = PrevWindow2(win2[1], win2[2], pageSize)
    /\ win4' = PrevWindow4(win4[1], win4[2], pageSize)
    /\ fetches2' = Append(fetches2, win2')
    /\ fetches4' = Append(fetches4, win4')
    /\ UNCHANGED pageSize
    /\ UNCHANGED <<browserVars, fibVars, lobsterVars, tvVars, renderVars, plVars, jlVars, shVars>>

\* both listings entered with one window and one page size; the window need not
\* be page-aligned
PairInit ==
    /\ BrowserOff
    /\ FibOff
    /\ LobsterOff
    /\ TvOff
    /\ RenderOff
    /\ PlOff
    /\ JlOff
    /\ ShOff
    /\ pageSize \in 1..MaxPageSize
    /\ \E s \in 1..MaxWindow, e \in 1..(MaxWindow + MaxPageSize) :
         /\ win2 = <<s, e>>
         /\ win4 = <<s, e>>
    /\ fetches2 = <<>>
    /\ fetches4 = <<>>

PairNextStep ==
    \/ PairNext
    \/ PairPrevious

PairSpec == PairInit /\ [][PairNextStep]_vars

\* ============================= playlists_explorer with spelled-out titles
\* playlist titles, as tuples of characters
PlaylistTitles ==
    { <<"M", "i", "x">>,
      <<"G", "o", " ", "B", "a", "c", "k">>,
      <<"E", "x", "i", "t", "s">>,
      <<"b", "a", "c", "k">>,
      <<"L", "o">> }

DigitChars == {"0", "1", "2", "3", "4", "5", "6", "7", "8", "9"}

\* `w in t` for strings: w occurs in t as a contiguous run
Contains(t, w) == \E i \in 1..(Len(t) - Len(w) + 1) : SubSeq(t, i, i + Len(w) - 1) = w

\* str.strip() for blanks
RECURSIVE strip(_)
strip(t) ==
    IF t = <<>> THEN t
    ELSE IF Head(t) = " " THEN strip(Tail(t))
    ELSE IF t[Len(t)] = " " THEN strip(SubSeq(t, 1, Len(t) - 1))
    ELSE t

\* re.sub(r'^[^0-9]*  ', '', t): the longest digit-free prefix that ends in
\* two blanks is removed
StripIcon(t) ==
    LET cuts == {k \in 2..Len(t) : /\ t[k - 1] = " " /\ t[k] = " "
                                   /\ \A j \in 1..k : t[j] \notin DigitChars}
    IN  IF cuts = {} THEN t
        ELSE LET k == CHOOSE c \in cuts : \A d \in cuts : d <= c
             IN  SubSeq(t, k + 1, Len(t))

\* lines 756-760: the title of entry i (1-based) among n, numbered in place
NumberedTitle(i, n, t) ==
    (IF n < 10 /\ i < 10 THEN <<"0", ToString(i)>> ELSE <<ToString(i)>>) \o <<" ">> \o t

\* the line launcher() returns for a pick (icons come with preview only and
\* are what StripIcon removes)
PickedLine(ts, pick) ==
    CASE pick = -1 -> <<"B", "a", "c", "k">>
      [] pick = -2 -> <<"E", "x", "i", "t">>
      [] pick = -3 -> <<>>
      [] OTHER -> NumberedTitle(pick, Len(ts), ts[pick])

\* lines 774-784 for one returned line: "break", "byebye", "open" (run_yt_dlp
\* and playlist_explorer on the entry whose title equals the line) or "again"
PlaylistsDispatch(ts, line) ==
    LET sel == strip(StripIcon(line))
        hits == {i \in 1..Len(ts) : NumberedTitle(i, Len(ts), ts[i]) = sel}
    IN  IF Contains(sel, <<"B", "a", "c", "k">>) \/ sel = <<>> THEN "break"
        ELSE IF Contains(sel, <<"E", "x", "i", "t">>) THEN "byebye"
        ELSE IF hits /= {} THEN "open"
        ELSE "again"

\* one pass of the loop of lines 766-784
PlPick ==
    /\ pl_result \notin {"break", "byebye"}
    /\ \E pick \in (1..Len(pl_titles)) \cup {-1, -2, -3} :
         /\ pl_pick' = pick
         /\ pl_result' = PlaylistsDispatch(pl_titles, PickedLine(pl_titles, pick))
    /\ UNCHANGED pl_titles
    /\ UNCHANGED <<browserVars, fibVars, lobsterVars, tvVars, renderVars, pairVars, jlVars, shVars>>

\* Playlists chosen again in the channel menu after the list was left with
\* Back: lines 750-765
PlReopen ==
    /\ pl_result = "break"
    /\ pl_titles' \in Lists(PlaylistTitles, MaxListed)
    /\ pl_result' = "shown"
    /\ UNCHANGED pl_pick
    /\ UNCHANGED <<browserVars, fibVars, lobsterVars, tvVars, renderVars, pairVars, jlVars, shVars>>

PlInit ==
    /\ BrowserOff
    /\ FibOff
    /\ LobsterOff
    /\ TvOff
    /\ RenderOff
    /\ PairOff
    /\ JlOff
    /\ ShOff
    /\ pl_titles \in Lists(PlaylistTitles, MaxListed)
    /\ pl_pick = 0
    /\ pl_result = "shown"

PlNext ==
    \/ PlPick
    \/ PlReopen

PlSpec == PlInit /\ [][PlNext]_vars

\* ======================================================= update_json_list
\* the videos an item menu can hand over: id and displayed title (a tuple of
\* characters; the listing has put a number in front, v3 has digits of its own)
Videos ==
    { [id |-> "v1", title |-> <<"0", "1", " ", "a">>],
      [id |-> "v2", title |-> <<"0", "2", " ", "b">>],
      [id |-> "v3", title |-> <<"0", "3", " ", "7", " ", "c">>] }

\* re.sub(r'^[0-9]+ ', '', t): leading digits and the blank after them go
StripNumber(t) ==
    LET ks == {k \in 2..Len(t) : t[k] = " " /\ \A j \in 1..(k - 1) : t[j] \in DigitChars}
    IN  IF ks = {} THEN t
        ELSE SubSeq(t, (CHOOSE k \in ks : TRUE) + 1, Len(t))

\* what Save stores for a video
Stored(v) == [id |-> v.id, title |-> StripNumber(v.title)]

\* the default of the limit parameter (line 557)
None == -1

\* lines 565-574 on the stored entries; `if limit and ...` is false for None
\* and for 0 alike
update_json_list(es, video, add, limit) ==
    LET kept == SelectSeq(es, LAMBDA e : e.id /= video.id)
        added == IF add THEN Append(kept, Stored(video)) ELSE kept
    IN  IF limit /= None /\ limit /= 0 /\ Len(added) > limit
        THEN SubSeq(added, Len(added) - limit + 1, Len(added))
        ELSE added

\* what a call was about: its arguments, whether the video was stored, and
\* the entries it found
JlCall(video, add, limit) ==
    [add |-> add, id |-> video.id, limit |-> limit,
     fresh |-> \A i \in 1..Len(jl_entries) : jl_entries[i].id /= video.id,
     before |-> jl_entries]

\* line 713
Save ==
    \E v \in Videos :
        /\ jl_entries' = update_json_list(jl_entries, v, TRUE, None)
        /\ jl_last' = JlCall(v, TRUE, None)
        /\ UNCHANGED <<browserVars, fibVars, lobsterVars, tvVars, renderVars, pairVars, plVars, shVars>>

\* line 714
UnSave ==
    \E v \in Videos :
        /\ jl_entries' = update_json_list(jl_entries, v, FALSE, None)
        /\ jl_last' = JlCall(v, FALSE, None)
        /\ UNCHANGED <<browserVars, fibVars, lobsterVars, tvVars, renderVars, pairVars, plVars, shVars>>

\* lines 578-580, UPDATE_RECENT being "true"; NO_OF_RECENT is whatever number
\* the configuration file holds (lines 283-289)
update_recent ==
    \E v \in Videos, NO_OF_RECENT \in 0..MaxRecent :
        /\ jl_entries' = update_json_list(jl_entries, v, TRUE, NO_OF_RECENT)
        /\ jl_last' = JlCall(v, TRUE, NO_OF_RECENT)
        /\ UNCHANGED <<browserVars, fibVars, lobsterVars, tvVars, renderVars, pairVars, plVars, shVars>>

\* lists of stored entries in which no id occurs twice
StoredLists ==
    {l \in Lists({Stored(v) : v \in Videos}, Cardinality(Videos)) :
        \A i, j \in 1..Len(l) : l[i].id = l[j].id => i = j}

JlInit ==
    /\ BrowserOff
    /\ FibOff
    /\ LobsterOff
    /\ TvOff
    /\ RenderOff
    /\ PairOff
    /\ PlOff
    /\ ShOff
    /\ jl_entries \in StoredLists
    /\ jl_last = NoCall

JlNext ==
    \/ Save
    \/ UnSave
    \/ update_recent

JlSpec == JlInit /\ [][JlNext]_vars

\* ============================================================ search history
\* the program's numbers: the history display shows the last 10 lines (line
\* 336), and '!n' is looked up for n <= 10 (line 855)
HistoryShown == 10
HistoryReach == 10

\* plain search terms, as tuples of characters
Terms == { <<"a">>, <<"b">> }

LowerLetters == {"a", "b", "w"}

\* '!0' .. '!MaxBang'
Bangs == { <<"!">> \o <<ToString(n)>> : n \in 0..MaxBang }

\* what the user types at the prompt: nothing, a term, a term with a blank
\* after it, a term behind a filter word, '!n', and '!11'
Typed ==
    Terms \cup Bangs \cup { <<>>, <<"a", " ">>, <<":", "w", " ", "b">>, <<"!", "1", "1">> }

\* re.match(r'^![0-9]{1,2}$', t)
IsBang(t) ==
    /\ Len(t) \in 2..3
    /\ t[1] = "!"
    /\ \A i \in 2..Len(t) : t[i] \in DigitChars

\* int() of a run of digits
RECURSIVE DigitsValue(_)
DigitsValue(t) ==
    IF t = <<>> THEN 0
    ELSE 10 * DigitsValue(SubSeq(t, 1, Len(t) - 1))
         + (CHOOSE v \in 0..9 : ToString(v) = t[Len(t)])

\* lines[-idx] of Python: -0 is 0, the first line; beyond the list IndexError
IndexFromEnd(lines, idx) ==
    IF idx = 0 THEN [ok |-> TRUE, line |-> lines[1]]
    ELSE IF idx <= Len(lines) THEN [ok |-> TRUE, line |-> lines[Len(lines) - idx + 1]]
    ELSE [ok |-> FALSE, line |-> <<>>]

\* lines 850-855 (yt-browser2: 585-590): the term after the history lookup;
\* "IndexError" is caught by the try of yt-browser2 and by nothing in
\* yt-browser4
HistoryLookup(b, lines, t) ==
    IF ~IsBang(t) THEN [ok |-> TRUE, term |-> t]
    ELSE LET idx == DigitsValue(Tail(t))
         IN  IF lines /= <<>> /\ idx <= HistoryReach
             THEN LET got == IndexFromEnd(lines, idx)
                  IN  IF got.ok THEN [ok |-> TRUE, term |-> got.line]
                      ELSE IF b = 2 THEN [ok |-> TRUE, term |-> t]
                      ELSE [ok |-> FALSE, term |-> t]
             ELSE [ok |-> TRUE, term |-> t]

\* re.match(r'^(:[a-z]+)\s+(.+)', t): the term behind the filter word
StripFilter(t) ==
    LET ks == { k \in 2..Len(t) :
                  /\ \A j \in 2..k : t[j] \in LowerLetters
                  /\ k + 1 < Len(t)
                  /\ t[k + 1] = " " }
    IN  IF t /= <<>> /\ t[1] = ":" /\ ks /= {}
        THEN strip(SubSeq(t, (CHOOSE k \in ks : \A j \in ks : j <= k) + 2, Len(t)))
        ELSE t

\* lines 869-875: the file after a search for t
HistoryWrite(lines, t) == Append(SelectSeq(lines, LAMBDA l : l /= t), t)

\* prompt(), lines 330-339: the numbered lines shown, entry n at position n
RECURSIVE Reverse(_)
Reverse(l) == IF l = <<>> THEN l ELSE Append(Reverse(Tail(l)), Head(l))
HistoryDisplayed(lines) ==
    Reverse(SubSeq(lines, IF Len(lines) > HistoryShown THEN Len(lines) - HistoryShown + 1 ELSE 1,
                   Len(lines)))

\* lines 857-879 with the term t
Search(t) ==
    LET term == StripFilter(t)
        written == IF SEARCH_HISTORY THEN HistoryWrite(hist_lines, term) ELSE hist_lines
    IN  /\ Len(written) <= MaxHistory
        /\ search_term' = term
        /\ hist_lines' = written
        /\ sh_pc' = "searched"

\* main_menu, action Search, no term given: lines 846-879
ShPrompt ==
    /\ sh_pc = "menu"
    /\ \E typed \in Typed :
         LET found == HistoryLookup(sh_browser, hist_lines, strip(typed))
         IN  /\ entered' = strip(typed)
             /\ IF ~found.ok
                THEN /\ sh_pc' = "crashed"
                     /\ UNCHANGED <<hist_lines, search_term>>
                ELSE IF found.term = <<>>
                THEN UNCHANGED <<hist_lines, search_term, sh_pc>>
                ELSE Search(found.term)
    /\ UNCHANGED <<sh_browser, SEARCH_HISTORY>>
    /\ UNCHANGED <<browserVars, fibVars, lobsterVars, tvVars, renderVars, pairVars, plVars, jlVars>>

\* the program started with --search (line 964): the term is given
ShRunSearch ==
    /\ sh_pc \in {"menu", "crashed"}
    /\ \E t \in Terms : Search(t)
    /\ entered' = <<>>
    /\ UNCHANGED <<sh_browser, SEARCH_HISTORY>>
    /\ UNCHANGED <<browserVars, fibVars, lobsterVars, tvVars, renderVars, pairVars, plVars, jlVars>>

\* the program started again after the crash (line 965)
ShRun ==
    /\ sh_pc = "crashed"
    /\ sh_pc' = "menu"
    /\ UNCHANGED <<sh_browser, SEARCH_HISTORY, hist_lines, entered, search_term>>
    /\ UNCHANGED <<browserVars, fibVars, lobsterVars, tvVars, renderVars, pairVars, plVars, jlVars>>

\* the listing of the results is left, the main menu is back
ShReturn ==
    /\ sh_pc = "searched"
    /\ sh_pc' = "menu"
    /\ UNCHANGED <<sh_browser, SEARCH_HISTORY, hist_lines, entered, search_term>>
    /\ UNCHANGED <<browserVars, fibVars, lobsterVars, tvVars, renderVars, pairVars, plVars, jlVars>>

ShInit ==
    /\ BrowserOff
    /\ FibOff
    /\ LobsterOff
    /\ TvOff
    /\ RenderOff
    /\ PairOff
    /\ PlOff
    /\ JlOff
    /\ sh_browser \in {2, 4}
    /\ SEARCH_HISTORY \in BOOLEAN
    /\ hist_lines = <<>>
    /\ entered = <<>>
    /\ search_term = <<>>
    /\ sh_pc = "menu"

ShNext ==
    \/ ShPrompt
    \/ ShRunSearch
    \/ ShRun
    \/ ShReturn

ShSpec == ShInit /\ [][ShNext]_vars

\* ================================================================== claims
IsFetch(c) == c.tool = "yt-dlp"
\* the page fetches of the last step, in order
FetchCalls == SelectSeq(calls, IsFetch)
Window == <<PLAYLIST_START, PLAYLIST_END>>
\* the last step answered the listing prompt with this label
ListingChose(l) == last.at = "listing" /\ last.sel.label = l

\* C1: in both browsers the window start bound PLAYLIST_START is >= 1 in every
\* reachable state; Previous clamps at the first page.
C1_StartPositive == PLAYLIST_START >= 1

\* Previous was selected where start - P would not be positive, and the listing goes on
C1_Witness ==
    /\ ListingChose("Previous")
    /\ pc = "listing"
    /\ prevWin[1] - NO_OF_SEARCH_RESULTS <= 0
    /\ PLAYLIST_START = 1

\* C2: Previous selected on the first page (start = 1, end = P) leaves both
\* window bounds unchanged.
C2_PreviousOnFirstPage ==
    (ListingChose("Previous") /\ prevWin = <<1, NO_OF_SEARCH_RESULTS>>)
        => Window = <<1, NO_OF_SEARCH_RESULTS>>

\* Previous was selected on the first page, its fetch succeeded
C2_Witness ==
    /\ ListingChose("Previous")
    /\ last.res = "ok"
    /\ pc = "listing"
    /\ prevWin = <<1, NO_OF_SEARCH_RESULTS>>
    /\ Window = prevWin

\* C3: Next and then Previous, both fetches succeeding, restore exactly the
\* window bounds the listing had before the Next.
C3_NextThenPrevious ==
    (ListingChose("Previous") /\ last.res = "ok" /\ nextFrom /= <<0, 0>>)
        => Window = nextFrom

\* Next then Previous ran from a page that is not the first one
C3_Witness ==
    /\ ListingChose("Previous")
    /\ last.res = "ok"
    /\ nextFrom /= <<0, 0>>
    /\ nextFrom[1] > 1
    /\ Window = nextFrom

\* C4: Next adds exactly the page size to both window bounds and issues exactly
\* one fetch, which carries the new bounds.
C4_NextAdvancesAndFetchesOnce ==
    ListingChose("Next") =>
        /\ FetchCalls = <<Fetch(prevWin[1] + NO_OF_SEARCH_RESULTS,
                                prevWin[2] + NO_OF_SEARCH_RESULTS)>>
        /\ last.res = "ok" =>
              Window = <<prevWin[1] + NO_OF_SEARCH_RESULTS, prevWin[2] + NO_OF_SEARCH_RESULTS>>

\* Next was selected on the first page and the next page is displayed
C4_Witness ==
    /\ ListingChose("Next")
    /\ last.res = "ok"
    /\ pc = "listing"
    /\ prevWin = <<1, NO_OF_SEARCH_RESULTS>>
    /\ Window = <<1 + NO_OF_SEARCH_RESULTS, 2 * NO_OF_SEARCH_RESULTS>>

\* C5 (as stated): Previous with start > P subtracts exactly P from both window
\* bounds and re-fetches with the new bounds; with start <= P the start bound
\* becomes 1 and the end bound P.
C5_PreviousRetreatsOrClamps ==
    ListingChose("Previous") =>
        LET P == NO_OF_SEARCH_RESULTS
            w == IF prevWin[1] > P THEN <<prevWin[1] - P, prevWin[2] - P>> ELSE <<1, P>>
        IN /\ FetchCalls = <<Fetch(w[1], w[2])>>
           /\ last.res = "ok" => Window = w

\* C6: selecting Exit at any menu depth terminates the process: the step that
\* resolves an Exit selection starts no fetch or player and ends in "exited",
\* and an exited process takes no further step (no prompt, fetch or player).
C6_ExitTerminates ==
    [][ /\ pc /= "exited"
        /\ last'.sel.label = "Exit" => (pc' = "exited" /\ calls' = <<>>) ]_vars

\* Exit was selected in the item menu of a session nested in another session
C6_Witness ==
    /\ pc = "exited"
    /\ last.at = "item"
    /\ last.raw.label = "Exit"
    /\ last.depth >= 2

\* the prompt of the level that called the innermost session
CallerPrompt == IF Len(sess) > 1 THEN "item" ELSE menu

C8_FailedRefetchKeepsPage ==
    [][ (pc = "listing" /\ last'.at = "listing"
           /\ last'.sel.label \in {"Next", "Previous"} /\ last'.res /= "ok")
          => /\ \E i \in 1..Len(calls') : calls'[i] = Notify
             /\ PLAYLIST_START' = PLAYLIST_START /\ PLAYLIST_END' = PLAYLIST_END
             /\ sess' = sess
             /\ pc' = "listing" ]_vars

\* C9 (as stated): a listing selection that is not a control label and does not
\* parse to an index in 1..len(entries) causes no action: no item menu, no
\* fetch, window and toggles unchanged, the same page prompted again.
C9_MalformedSelectionNoAction ==
    [][ (pc = "listing" /\ last'.at = "listing"
           /\ last'.sel.label \notin ListingControls(browser)
           /\ ~(last'.sel.label = "item" /\ last'.sel.n \in 1..Len(Top.entries)))
          => /\ pc' = "listing"
             /\ calls' = <<>>
             /\ UNCHANGED <<PLAYLIST_START, PLAYLIST_END, AUDIO_ONLY_MODE, AUTOPLAY_MODE, sess>> ]_vars

\* a playlist_explorer call returned to its caller in this step
SessionReturns ==
    \/ Len(sess') < Len(sess) /\ pc' \notin {"exited", "crashed"}
    \/ /\ pc \in {"main", "chan_actions", "playlists", "item"}
       /\ last'.res \in {"fail", "badjson", "noentries"}
       /\ last'.sel.label \in {"Your Feed", "Search", "Videos", "item", "Mix"}

\* C10 (as stated): whenever a navigation session ends and control returns to
\* its caller (Back, empty selection, Main Menu, failed or empty fetch) the
\* window bounds have been reset to start = 1, end = P.
C10_SessionEndResetsWindow ==
    [][ SessionReturns =>
          (PLAYLIST_START' = 1 /\ PLAYLIST_END' = NO_OF_SEARCH_RESULTS') ]_vars

\* C11 (as stated): in yt-browser2 the toggles keep their values across Next and
\* Previous within a session, and every new session starts with audio-only and
\* autoplay off.
C11_TogglesPersistAndReset ==
    [][ browser = 2 =>
          /\ (pc = "listing" /\ last'.at = "listing"
                 /\ last'.sel.label \in {"Next", "Previous"})
               => UNCHANGED <<AUDIO_ONLY_MODE, AUTOPLAY_MODE>>
          /\ Len(sess') > Len(sess) => (~AUDIO_ONLY_MODE' /\ ~AUTOPLAY_MODE') ]_vars

\* C12 (as stated): in yt-browser2 a Toggle Audio Only selection flips the
\* audio-only boolean and changes nothing else, and every player command carries
\* the no-video arguments exactly when the boolean is true.
C12_AudioOnlyToggleDrivesWatch ==
    [][ browser = 2 =>
          /\ (pc = "item" /\ last'.at = "item" /\ last'.sel.label = "Toggle Audio Only")
               => /\ AUDIO_ONLY_MODE' = ~AUDIO_ONLY_MODE
                  /\ UNCHANGED <<PLAYLIST_START, PLAYLIST_END, AUTOPLAY_MODE, sess, pc>>
          /\ \A i \in 1..Len(calls') :
                calls'[i].tool = "player" => calls'[i].novideo = AUDIO_ONLY_MODE' ]_vars

\* C13 (as stated): Back or an empty selection in the item action menu leads to
\* the listing prompt of the same session, and that step issues no fetch,
\* whatever was done in the item menu before.
C13_ItemBackReturnsToListing ==
    [][ (pc = "item" /\ last'.at = "item" /\ last'.raw.label \in {"Back", ""})
          => /\ pc' = "listing"
             /\ Len(sess') = Len(sess)
             /\ \A i \in 1..Len(calls') : calls'[i].tool /= "yt-dlp" ]_vars

\* C14 (as stated): a fetch that fails, by a non-zero exit status of the metadata
\* tool or by a payload that is not JSON, shows a notification and yields no
\* usable page.
C14_FetchFailureNotifies ==
    \A k \in {"fail", "badjson"} :
        last.res = k =>
            /\ \E i \in 1..Len(calls) : calls[i] = Notify
            /\ ~Usable([kind |-> k, entries |-> <<>>])

\* C15 (as stated): a listing selection that fails to parse to a video, the
\* index of a null entry included, never ends the process abnormally: the
\* listing is prompted again.
C15_ParseFailuresNeverCrash ==
    [][ (pc = "listing" /\ last'.at = "listing"
           /\ last'.sel.label \notin ListingControls(browser))
          => pc' /= "crashed" ]_vars

\* C16: in yt-browser2 the player started by Watch is waited for exactly when
\* autoplay is on, and then nothing is prompted until it ends; with autoplay off
\* it is spawned detached and the item menu is prompted again.  Download is
\* spawned detached and the item menu is prompted again.
C16_WatchWaitsIffAutoplay ==
    browser = 2 =>
        /\ \A i \in 1..Len(calls) :
              calls[i].tool = "player" => calls[i].wait = AUTOPLAY_MODE
        /\ (last.at = "item" /\ last.sel.label = "Watch") =>
              /\ \E i \in 1..Len(calls) : calls[i].tool = "player"
              /\ pc = IF AUTOPLAY_MODE THEN "playing" ELSE "item"
        /\ (last.at = "item" /\ last.sel.label = "Download") =>
              /\ \E i \in 1..Len(calls) : calls[i].tool = "download"
              /\ \A i \in 1..Len(calls) : calls[i].tool = "download" => ~calls[i].wait
              /\ pc = "item"

\* Watch was selected with autoplay on: the player runs and is waited for
C16_Witness ==
    /\ browser = 2
    /\ last.at = "item"
    /\ last.sel.label = "Watch"
    /\ AUTOPLAY_MODE
    /\ pc = "playing"
    /\ calls[1].tool = "player"
    /\ calls[1].wait

\* the last step called playlist_explorer with a fetch result that is no page
SessionStartFailed ==
    /\ last.res \in {"fail", "badjson", "noentries"}
    /\ \/ last.at = "main" /\ last.sel.label \in MainSessionLabels(browser)
       \/ last.at = "chan_actions" /\ last.sel.label \in {"Videos", "Search"}
       \/ last.at = "playlists" /\ last.sel.label = "item"
       \/ last.at = "item" /\ last.sel.label = "Mix"

\* C17: a session started with a failed initial fetch (no page, or a payload
\* without entries) prompts nothing and fetches nothing more: the step made the
\* one initial fetch, control is back at the caller's prompt with the same
\* sessions active, the window is the first page, and the caller can start a
\* session again.
C17_FailedStartReturnsToCaller ==
    SessionStartFailed =>
        /\ pc = last.at
        /\ Len(sess) = last.depth
        /\ Len(FetchCalls) = 1
        /\ Window = <<1, NO_OF_SEARCH_RESULTS>>
        /\ last.at = "main" => ENABLED MainSession
        /\ last.at = "chan_actions" => ENABLED ChanSession
        /\ last.at = "playlists" => ENABLED PlaylistsOpen
        /\ last.at = "item" => ENABLED Mix

\* a search from the main menu got a payload without entries
C17_Witness ==
    /\ SessionStartFailed
    /\ last.at = "main"
    /\ last.res = "noentries"
    /\ pc = "main"
    /\ sess = <<>>

\* the sequence F(1) = 0, F(2) = 1, F(k) = F(k-1) + F(k-2)
RECURSIVE F(_)
F(k) == IF k = 1 THEN 0 ELSE IF k = 2 THEN 1 ELSE F(k - 1) + F(k - 2)

\* C18: once the report line of an accepted n is printed, it names n and the
\* value F(n), the n terms F(1), ..., F(n) were printed before it, and for
\* n >= 3 the computation loop made exactly n - 2 passes.
C18_ReportsNthFibonacci ==
    reported /= <<>> =>
        /\ reported = <<nth, F(nth)>>
        /\ printed = [i \in 1..nth |-> ToString(F(i))]
        /\ (nth >= 3 => iterations = nth - 2)

\* C19: a response QUIT at the prompt ends the program; every other response
\* that is not a decimal string of non-zero value is answered by the prompt
\* again and leaves the computation untouched.
C19_QuitEndsOthersRejected ==
    [][ fpc = "prompt" =>
          /\ response' = "QUIT" => fpc' = "exited"
          /\ (response' /= "QUIT" /\ ~(isdecimal(response') /\ int(response') /= 0))
               => /\ fpc' = "prompt"
                  /\ UNCHANGED <<nth, secondTolastNumber, lastNumber, fibNumbeCalculated,
                                 nextNumber, printed, reported, iterations>> ]_vars

\* C20: a 'q' typed at the media, season or episode menu quits the
\* application: run() returns and no search or selection prompt follows.
C20_QuitAtSelectionMenuQuits ==
    [][ (lpc \in {"media", "season", "episode"} /\ lower(choice') = "q")
          => lpc' = "done" ]_vars

\* C21: after an episode has played, '2. Replay current episode' leads
\* straight to the playback of that same episode: no episode menu is shown in
\* between, whatever auto_next and the episode's position are.
C21_ReplayPlaysSameEpisode ==
    [][ (tvpc = "menu" /\ played /= "" /\ tv_choice' = "2")
          => /\ tvpc' = "fetch"
             /\ episode' = played
             /\ current_episode_idx' = current_episode_idx ]_vars

\* the control points inside the loop of lines 562-623
InEpisodeLoop == {"episode", "fetch", "menu"}

\* C30: the episode index stays within 0..len(episodes), an episode is only
\* read at an index below len(episodes), and once the episode at the last
\* index is handled (played or failed) the season menu is the next prompt.
C30_EpisodeIndexInRange ==
    [][ /\ tvpc \in InEpisodeLoop => current_episode_idx' \in 0..Len(episodes')
        /\ tvpc' \in InEpisodeLoop
             => /\ current_episode_idx' < Len(episodes')
                /\ episode' = episodes'[current_episode_idx' + 1]
        /\ (tvpc = "fetch" /\ current_episode_idx = Len(episodes) - 1)
             => tvpc' = "season" ]_vars

C30_Witness ==
    /\ tvpc = "season"
    /\ Len(episodes) = MaxEpisodes
    /\ current_episode_idx = Len(episodes)
    /\ auto_next

\* C22: at every prompt and in every page fetch the window is exactly one page
\* wide, PLAYLIST_END = PLAYLIST_START + P - 1 for the configured page size P.
C22_WindowOnePageWide ==
    /\ pc \notin {"playing", "exited", "crashed"}
         => PLAYLIST_END = PLAYLIST_START + NO_OF_SEARCH_RESULTS - 1
    /\ \A i \in 1..Len(FetchCalls) :
         FetchCalls[i].end = FetchCalls[i].start + NO_OF_SEARCH_RESULTS - 1

\* the last step fetched an initial page and called playlist_explorer with it
SessionStarted ==
    /\ last.res /= "none"
    /\ \/ last.at = "main" /\ last.sel.label \in MainSessionLabels(browser)
       \/ last.at = "chan_actions" /\ last.sel.label \in {"Videos", "Search"}
       \/ last.at = "playlists" /\ last.sel.label = "item"
       \/ last.at = "item" /\ last.sel.label = "Mix"

\* C23: the fetch of a session's initial page is made with the window
\* start = 1, end = P, whatever page other sessions had reached; and when a
\* Mix session that was left at once returns, the window is again the one of
\* the page the enclosing session displays (the window Mix was chosen under).
C23_SessionStartsOnFirstPage ==
    [][ /\ SessionStarted' =>
              /\ FetchCalls'[1].start = 1
              /\ FetchCalls'[1].end = NO_OF_SEARCH_RESULTS
        /\ (/\ last.at = "item" /\ last.sel.label = "Mix" /\ last.res = "ok"
            /\ Len(sess') = Len(sess) - 1 /\ pc' = "item")
               => Window' = prevWin ]_vars

\* C24: whenever a fetched page is displayed, for the first time or again
\* without a re-fetch, every item's label is '<index> <original title>': the
\* number prefix is applied once, with preview enabled or disabled.
C24_RenderingIdempotent ==
    rpc = "prompt" =>
        titles = TitlesOf([i \in 1..Len(fetched) |->
                     IF fetched[i].none THEN fetched[i]
                     ELSE Entry(num(i - 1, Len(fetched)) \o " " \o fetched[i].title)])

\* C25: given the same starting window, the same page size and the same
\* sequence of Next and Previous selections, yt-browser2 and yt-browser4 hold
\* the same window after every step and issue the same fetch bounds.
C25_SamePagination ==
    /\ win2 = win4
    /\ fetches2 = fetches4

\* both went forward and then back onto the first page, where Previous clamps
C25_Witness ==
    /\ Len(fetches2) = MaxSteps
    /\ fetches2[1][1] > 1
    /\ win2 = <<1, pageSize>>
    /\ win4 = <<1, pageSize>>

\* C26: in yt-browser4, Main Menu chosen in a listing ends the session and the
\* main menu is the next prompt, whichever menu the session was opened from.
C26_MainMenuLeadsToMainMenu ==
    [][ (browser = 4 /\ pc = "listing" /\ last'.at = "listing" /\ last'.sel.label = "Main Menu")
          => /\ pc' = "main"
             /\ sess' = <<>> ]_vars

\* C27: in the playlists list of yt-browser4 a selected item always opens that
\* playlist, whatever its title; it is never taken for Back or Exit.
C27_PlaylistItemAlwaysOpens ==
    (pl_pick >= 1 /\ pl_result /= "shown") => pl_result = "open"

\* the entries of l other than the one with this id, in order
Without(l, id) == SelectSeq(l, LAMBDA e : e.id /= id)
\* l is the tail of m
IsSuffix(l, m) == Len(l) <= Len(m) /\ l = SubSeq(m, Len(m) - Len(l) + 1, Len(m))

\* C28: every update_json_list call on a list without duplicate ids leaves a
\* list without duplicate ids; an added video is last and the other entries
\* keep their order, so the most recently added one is last; with a limit at
\* most limit entries stay, the most recent ones; and UnSave right after the
\* Save of a video that was not stored gives back the entries from before.
C28_JsonListKeptInOrder ==
    [][ /\ \A i, j \in 1..Len(jl_entries') : jl_entries'[i].id = jl_entries'[j].id => i = j
        /\ jl_last'.add =>
             /\ jl_entries' /= <<>>
             /\ jl_entries'[Len(jl_entries')].id = jl_last'.id
        /\ IsSuffix(Without(jl_entries', jl_last'.id), Without(jl_entries, jl_last'.id))
        /\ jl_last'.limit /= None =>
             /\ Len(jl_entries') <= jl_last'.limit
             /\ IsSuffix(jl_entries', Append(Without(jl_entries, jl_last'.id), jl_entries'[Len(jl_entries')]))
        /\ (/\ jl_last.add /\ jl_last.limit = None /\ jl_last.fresh
            /\ ~jl_last'.add /\ jl_last'.id = jl_last.id)
             => jl_entries' = jl_last.before ]_vars

\* C29: with the history enabled, after every search no term is twice in the
\* history file and the term searched for is its last line; '!n' with
\* 1 <= n <= min(10, number of lines) searches for the n-th most recent term,
\* which is entry n of the displayed history; '!0' selects no history entry,
\* the search is made for what was typed.
C29_SearchHistory ==
    [][ /\ (SEARCH_HISTORY /\ sh_pc' = "searched") =>
             /\ \A i, j \in 1..Len(hist_lines') : hist_lines'[i] = hist_lines'[j] => i = j
             /\ hist_lines'[Len(hist_lines')] = search_term'
        /\ \A n \in 1..MaxBang :
             (/\ sh_pc = "menu"
              /\ entered' = <<"!", ToString(n)>>
              /\ n <= Len(hist_lines)
              /\ n <= 10)
               => /\ sh_pc' = "searched"
                  /\ search_term' = hist_lines[Len(hist_lines) - n + 1]
                  /\ search_term' = HistoryDisplayed(hist_lines)[n]
        /\ (sh_pc = "menu" /\ entered' = <<"!", "0">> /\ sh_pc' = "searched")
               => search_term' = entered' ]_vars

====
